---- MODULE Spec2Model ----
(***************************************************************************)
(* CPU scheduling simulator (src/main.py): the six scheduling algorithms   *)
(* fcfs_scheduling, sjf_scheduling, sjf_preemptive_scheduling,             *)
(* priority_scheduling, priority_preemptive_scheduling and                 *)
(* round_robin_scheduling, and their dispatch in _run_algorithm.           *)
(*                                                                         *)
(* One call of an algorithm is a run of the state machine: RunAlgorithm is *)
(* the dispatch and the function's prologue, every iteration of the        *)
(* function's main loop is one action, and Finish is the computation of    *)
(* the stats rows and the return.                                          *)
(***************************************************************************)
EXTENDS Integers, Sequences, FiniteSets, TLC

(***************************************************************************)
(* Bounds of the model.                                                    *)
(***************************************************************************)
MaxProcs == 3
MaxArrival == 1
MaxTotalBurst == 4
MaxPriority == 1
MaxRotationBurst == 3
MaxRawProcs == 2
MaxRawBurst == 2
MaxRawClock == 6
MaxAggLen == 2
MaxAggTime == 2
MaxCompareProcs == 2
MaxCompareBurst == 2
MaxAgainProcs == 2
MaxAgainBurst == 2
MaxGapProcs == 2
MaxGapArrival == 3
MaxGapBurst == 3
MaxDefensiveProcs == 2
MaxDefensiveBurst == 3
MaxDefensiveClock == 6
MaxPairProcs == 2
MaxPairBurst == 3
MaxTableRows == 2
MaxTablePid == 5
MaxQuantum == 2

(***************************************************************************)
(* Values.                                                                 *)
(***************************************************************************)
\* The idle sentinel of a schedule entry ("pid": None). Process ids are >= 1.
None == 0

\* The keys _run_algorithm dispatches on.
AlgorithmKeys == {"FCFS", "SJF", "SJF_PREEMPTIVE", "PRIORITY", "PRIORITY_PREEMPTIVE", "RR"}

\* No function is called: the call is pending, or _run_algorithm raises.
NoFunction == "(none)"

\* A variant of the dispatch whose last branch falls back on FCFS.
DispatchWithDefault(alg, q) ==
    IF alg = "SJF" THEN "sjf_scheduling"
    ELSE IF alg = "SJF_PREEMPTIVE" THEN "sjf_preemptive_scheduling"
    ELSE IF alg = "PRIORITY" THEN "priority_scheduling"
    ELSE IF alg = "PRIORITY_PREEMPTIVE" THEN "priority_preemptive_scheduling"
    ELSE IF alg = "RR"
         THEN (IF q = <<>> THEN NoFunction ELSE "round_robin_scheduling")
    ELSE "fcfs_scheduling"

\* The chain of "if algorithm == ..." of _run_algorithm: the function the
\* key is dispatched to.
Dispatch(alg, q) ==
    IF alg = "FCFS" THEN "fcfs_scheduling"
    ELSE IF alg = "SJF" THEN "sjf_scheduling"
    ELSE IF alg = "SJF_PREEMPTIVE" THEN "sjf_preemptive_scheduling"
    ELSE IF alg = "PRIORITY" THEN "priority_scheduling"
    ELSE IF alg = "PRIORITY_PREEMPTIVE" THEN "priority_preemptive_scheduling"
    ELSE IF alg = "RR"
         THEN (IF q = <<>> THEN NoFunction ELSE "round_robin_scheduling")
    ELSE NoFunction

\* A pid k stands for the string "P<k>" that add_process builds; Digits is
\* the decimal text of k, most significant digit first.
RECURSIVE Digits(_)
Digits(k) == IF k < 10 THEN <<k>> ELSE Append(Digits(k \div 10), k % 10)

\* The text of a pid as character codes: "P" followed by the digits.
PidStr(pid) == <<80>> \o [i \in 1..Len(Digits(pid)) |-> 48 + Digits(pid)[i]]

\* Python's < on tuples and on strings: lexicographic, a proper prefix first.
LexLess(s, t) ==
    \E i \in 1..Len(t) :
        /\ \A j \in 1..(i - 1) : j <= Len(s) /\ s[j] = t[j]
        /\ i > Len(s) \/ (i <= Len(s) /\ s[i] < t[i])
        /\ i > Len(s) => Len(s) = i - 1

\* list[-1] and list[:-1].
Last(s) == s[Len(s)]
Front(s) == SubSeq(s, 1, Len(s) - 1)

\* A Process record (dataclass Process).
Process(pid, arrival, burst, prio) ==
    [pid |-> pid, arrival_time |-> arrival, burst_time |-> burst, priority |-> prio]

\* A schedule entry {"pid", "start", "end"}.
Entry(pid, start, end) == [pid |-> pid, start |-> start, end |-> end]

(***************************************************************************)
(* sorted(..., key=...) and list.sort(key=...): a stable sort on keys.     *)
(* A key is a tuple of integers followed by the pid's text.                *)
(***************************************************************************)
\* A key that leaves the pid out: equal arrivals stay in the table's order.
ArrivalKeyNoPid(p) == <<p.arrival_time>>
ArrivalKey(p) == <<p.arrival_time>> \o PidStr(p.pid)
\* A key that leaves the burst time out: arrival order among the ready.
BurstKeyNoBurst(p) == <<p.arrival_time>> \o PidStr(p.pid)
BurstKey(p) == <<p.burst_time, p.arrival_time>> \o PidStr(p.pid)
\* A key that reads the priority the other way: the greater value first.
PriorityKeyReversed(p) == <<0 - p.priority, p.arrival_time>> \o PidStr(p.pid)
PriorityKey(p) == <<p.priority, p.arrival_time>> \o PidStr(p.pid)
PidKey(p) == PidStr(p.pid)

\* A stable sort of the list ps on keys[i], the key of ps[i]: an item moves
\* to the position that counts the items of a smaller key and the earlier
\* items of an equal key.
PositionIn(keys, i) ==
    1 + Cardinality({j \in 1..Len(keys) :
                        \/ LexLess(keys[j], keys[i])
                        \/ j < i /\ ~LexLess(keys[i], keys[j])})

SortByKeys(ps, keys) ==
    [k \in 1..Len(ps) |-> ps[CHOOSE i \in 1..Len(ps) : PositionIn(keys, i) = k]]

\* A variant of the sort that leaves the list as it is.
Unsorted(ps) == ps

SortedByArrival(ps) == SortByKeys(ps, [i \in 1..Len(ps) |-> ArrivalKey(ps[i])])

SortedByBurst(ps) == SortByKeys(ps, [i \in 1..Len(ps) |-> BurstKey(ps[i])])

SortedByPriority(ps) == SortByKeys(ps, [i \in 1..Len(ps) |-> PriorityKey(ps[i])])

SortedByPid(ps) == SortByKeys(ps, [i \in 1..Len(ps) |-> PidKey(ps[i])])

(***************************************************************************)
(* Dictionaries (completion_times, remaining) as functions on pids.        *)
(***************************************************************************)
EmptyDict == [k \in {} |-> 0]

\* d[k] = v
DictSet(d, k, v) == [x \in (DOMAIN d) \cup {k} |-> IF x = k THEN v ELSE d[x]]

\* {p.pid: p.burst_time for p in ps}: a later entry of the same pid wins.
RemainingOf(ps) ==
    [k \in {ps[i].pid : i \in 1..Len(ps)} |->
        LET last == CHOOSE i \in 1..Len(ps) :
                        /\ ps[i].pid = k
                        /\ \A j \in 1..Len(ps) : ps[j].pid = k => j <= i
        IN ps[last].burst_time]

(***************************************************************************)
(* The state: the arguments of the call and the locals of the function     *)
(* that runs.                                                              *)
(***************************************************************************)
VARIABLES
    processes,          \* the process list handed to the algorithm
    algorithm,          \* the key handed to _run_algorithm
    callee,             \* the scheduling function _run_algorithm calls
    quantum,            \* Optional[int]: <<>> is None, <<q>> is the integer q
    pc,                 \* "call", "loop", "return", or the exception raised
    procs,              \* sorted(processes, key=(arrival_time, pid))
    loop_i,             \* fcfs: position of "for p in procs" (0-based)
    completed,          \* sjf, priority: the counter "completed"
    current_time,
    schedule,
    completion_times,
    ready_queue,
    next_index,         \* 0-based index into procs of the next arrival
    remaining,
    stats,
    quantum_text,       \* the text of quantum_entry, as character codes
    key_i,              \* run_comparison: position in the loop over the keys, 0 outside it
    comparison,         \* the rows of comparison_tree
    aggregates,         \* what _compute_aggregates returned last
    dialog,             \* the title of the error dialog shown last
    results,            \* what the earlier calls of a caller that calls again returned
    next_pid,           \* self._next_pid: the number of the next pid the window assigns
    message             \* the message of the error dialog shown last

\* The state of the window around a call.
app == <<quantum_text, key_i, comparison, aggregates, dialog, results, next_pid, message>>

vars == <<processes, algorithm, callee, quantum, pc, procs, loop_i, completed,
          current_time, schedule, completion_times, ready_queue, next_index,
          remaining, stats, app>>

NoAggregates == <<>>

NoDialog == ""

\* No comparison is running, nothing was aggregated, no dialog is shown, no
\* result is kept and no pid was assigned.
AppIdle ==
    /\ key_i = 0
    /\ comparison = <<>>
    /\ aggregates = NoAggregates
    /\ dialog = NoDialog
    /\ results = <<>>
    /\ next_pid = 1
    /\ message = ""

n == Len(procs)

(***************************************************************************)
(* The inputs.  A process table as _get_processes_from_tree returns it:    *)
(* rows in the order they were added, so pids ascend in their number.  The *)
(* pids are the last ones of P1 .. P<MaxProcs-1>, P10 (the rows before     *)
(* them were removed): the text of P10 orders before that of P2.           *)
(***************************************************************************)
PidPool == [i \in 1..MaxProcs |-> IF i < MaxProcs THEN i ELSE 10]

PidColumn(len) == [i \in 1..len |-> PidPool[MaxProcs - len + i]]

RECURSIVE Sum(_)
Sum(xs) == IF xs = <<>> THEN 0 ELSE Head(xs) + Sum(Tail(xs))

\* The burst times of a table: each > 0, MaxTotalBurst at most in all.
BurstColumns(len) ==
    {bs \in [1..len -> 1..MaxTotalBurst] : Sum(bs) <= MaxTotalBurst}

\* The table of len rows with the given columns.
Table(len, ar, bs, pr) ==
    [i \in 1..len |-> Process(PidColumn(len)[i], ar[i], bs[i], pr[i])]

Quanta == {<<>>} \cup {<<q>> : q \in (-1)..MaxQuantum}

AnyKeys == AlgorithmKeys \cup {"LOTTERY"}

\* priority: int = 0
DefaultPriority == 0

\* The priorities of the tables an algorithm is run on.
\* priority_scheduling and priority_preemptive_scheduling read p.priority; the
\* other functions only copy it into the stats rows, and are run on the
\* tables of default priority.
ReadsPriority(alg) == alg \in {"PRIORITY", "PRIORITY_PREEMPTIVE"}

Priorities(alg) == IF ReadsPriority(alg) THEN 0..MaxPriority ELSE {DefaultPriority}

\* A call is pending: its arguments are drawn, the locals are not set yet.
Init ==
    /\ \E alg \in AnyKeys, len \in 0..MaxProcs :
         \E q \in (IF alg = "RR" THEN Quanta ELSE {<<>>}),
            ar \in [1..len -> 0..MaxArrival],
            bs \in BurstColumns(len),
            pr \in [1..len -> Priorities(alg)] :
                /\ processes = Table(len, ar, bs, pr)
                /\ algorithm = alg
                \* only round_robin_scheduling receives the quantum
                /\ quantum = q
    /\ quantum_text = <<>> /\ AppIdle
    /\ callee = NoFunction
    /\ pc = "call"
    /\ procs = <<>>
    /\ loop_i = 0
    /\ completed = 0
    /\ current_time = 0
    /\ schedule = <<>>
    /\ completion_times = EmptyDict
    /\ ready_queue = <<>>
    /\ next_index = 0
    /\ remaining = EmptyDict
    /\ stats = <<>>

\* A variant of the admission loop with "<" for "<=": a process that arrives
\* at t is not admitted at t.
AdmitIndexStrict(idx, t) ==
    CHOOSE j \in idx..n :
        /\ \A k \in (idx + 1)..j : procs[k].arrival_time < t
        /\ j < n => procs[j + 1].arrival_time >= t

(***************************************************************************)
(* Helpers shared by the loops.                                            *)
(***************************************************************************)
\* while next_index < n and procs[next_index].arrival_time <= t: next_index += 1
\* The value of next_index after the loop: it stops at the first process
\* that has not arrived by t.
AdmitIndex(idx, t) ==
    CHOOSE j \in idx..n :
        /\ \A k \in (idx + 1)..j : procs[k].arrival_time <= t
        /\ j < n => procs[j + 1].arrival_time > t

\* The ready queue after the same loop: procs[idx .. AdmitIndex) appended.
AdmitQueue(queue, idx, t) == queue \o SubSeq(procs, idx + 1, AdmitIndex(idx, t))

\* [p for p in queue if p.pid != pid]
WithoutPid(queue, pid) == SelectSeq(queue, LAMBDA p : p.pid # pid)

\* The row of stats of process p.
StatsRow(p, ct) ==
    [pid |-> p.pid, arrival_time |-> p.arrival_time, burst_time |-> p.burst_time,
     priority |-> p.priority, completion_time |-> ct,
     turnaround_time |-> ct - p.arrival_time,
     waiting_time |-> (ct - p.arrival_time) - p.burst_time]

\* The stats loop over the list ps, reading completion_times.
StatsOf(ps) == [i \in 1..Len(ps) |-> StatsRow(ps[i], completion_times[ps[i].pid])]

(***************************************************************************)
(* _run_algorithm: the dispatch on the key, and the prologue of the        *)
(* function it calls (the empty-list return, the quantum check, the sort   *)
(* and the initial values of the locals).                                  *)
(***************************************************************************)
\* A variant that treats the empty list as an invalid argument.
RaisesOnEmpty(alg, q, ps) ==
    \/ alg \notin AlgorithmKeys
    \/ alg = "RR" /\ q = <<>>
    \/ alg = "RR" /\ q # <<>> /\ q[1] <= 0
    \/ ps = <<>>

Raises(alg, q, ps) ==
    \/ Dispatch(alg, q) = NoFunction
    \/ Dispatch(alg, q) = "round_robin_scheduling" /\ ps # <<>> /\ q[1] <= 0

\* A variant of the prologue that starts the clock where the call before
\* left it.
RunAlgorithmKeepsClock ==
    /\ pc = "call"
    /\ pc' = IF Raises(algorithm, quantum, processes) THEN "ValueError"
             ELSE IF processes = <<>> THEN "return"
             ELSE "loop"
    /\ procs' = IF Raises(algorithm, quantum, processes) \/ processes = <<>>
                THEN <<>> ELSE SortedByArrival(processes)
    /\ remaining' = IF /\ ~Raises(algorithm, quantum, processes)
                       /\ processes # <<>>
                       /\ Dispatch(algorithm, quantum) \in
                            {"sjf_preemptive_scheduling",
                             "priority_preemptive_scheduling",
                             "round_robin_scheduling"}
                    THEN RemainingOf(processes) ELSE EmptyDict
    /\ loop_i' = 0
    /\ completed' = 0
    /\ current_time' = current_time
    /\ schedule' = <<>>
    /\ completion_times' = EmptyDict
    /\ ready_queue' = <<>>
    /\ next_index' = 0
    /\ stats' = <<>>
    /\ callee' = Dispatch(algorithm, quantum)
    /\ UNCHANGED <<app, processes, algorithm, quantum>>

\* A variant of the prologue that goes on with the remaining times the call
\* before left, when it left any.
RunAlgorithmStaleRemaining ==
    /\ pc = "call"
    /\ pc' = IF Raises(algorithm, quantum, processes) THEN "ValueError"
             ELSE IF processes = <<>> THEN "return"
             ELSE "loop"
    /\ procs' = IF Raises(algorithm, quantum, processes) \/ processes = <<>>
                THEN <<>> ELSE SortedByArrival(processes)
    /\ remaining' = IF /\ ~Raises(algorithm, quantum, processes)
                       /\ processes # <<>>
                       /\ Dispatch(algorithm, quantum) \in
                            {"sjf_preemptive_scheduling",
                             "priority_preemptive_scheduling",
                             "round_robin_scheduling"}
                    THEN (IF remaining # EmptyDict THEN remaining ELSE RemainingOf(processes))
                    ELSE EmptyDict
    /\ loop_i' = 0
    /\ completed' = 0
    /\ current_time' = 0
    /\ schedule' = <<>>
    /\ completion_times' = EmptyDict
    /\ ready_queue' = <<>>
    /\ next_index' = 0
    /\ stats' = <<>>
    /\ callee' = Dispatch(algorithm, quantum)
    /\ UNCHANGED <<app, processes, algorithm, quantum>>

\* The call _run_algorithm(algorithm, processes, quantum), up to the first
\* iteration of the loop of the function it dispatches to.
RunAlgorithm ==
    /\ pc = "call"
    /\ pc' = IF Raises(algorithm, quantum, processes) THEN "ValueError"
             ELSE IF processes = <<>> THEN "return"
             ELSE "loop"
    /\ procs' = IF Raises(algorithm, quantum, processes) \/ processes = <<>>
                THEN <<>> ELSE SortedByArrival(processes)
    /\ remaining' = IF /\ ~Raises(algorithm, quantum, processes)
                       /\ processes # <<>>
                       /\ Dispatch(algorithm, quantum) \in
                            {"sjf_preemptive_scheduling",
                             "priority_preemptive_scheduling",
                             "round_robin_scheduling"}
                    THEN RemainingOf(processes) ELSE EmptyDict
    /\ loop_i' = 0
    /\ completed' = 0
    /\ current_time' = 0
    /\ schedule' = <<>>
    /\ completion_times' = EmptyDict
    /\ ready_queue' = <<>>
    /\ next_index' = 0
    /\ stats' = <<>>
    /\ callee' = Dispatch(algorithm, quantum)
    /\ UNCHANGED <<app, processes, algorithm, quantum>>

(***************************************************************************)
(* fcfs_scheduling: one iteration of "for p in procs".                     *)
(***************************************************************************)
\* A variant of the iteration that does not wait for the arrival: the
\* process starts at the clock, whether or not it has arrived.
FcfsStepNoWait ==
    /\ pc = "loop" /\ callee = "fcfs_scheduling"
    /\ loop_i < n
    /\ LET p == procs[loop_i + 1]
           end == current_time + p.burst_time
       IN /\ schedule' = Append(schedule, Entry(p.pid, current_time, end))
          /\ completion_times' = DictSet(completion_times, p.pid, end)
          /\ current_time' = end
    /\ loop_i' = loop_i + 1
    /\ UNCHANGED <<app, processes, algorithm, callee, quantum, pc, procs, completed,
                   ready_queue, next_index, remaining, stats>>

FcfsStep ==
    /\ pc = "loop" /\ callee = "fcfs_scheduling"
    /\ loop_i < n
    /\ LET p == procs[loop_i + 1]
           start == IF current_time < p.arrival_time THEN p.arrival_time ELSE current_time
           end == start + p.burst_time
           idle == IF current_time < p.arrival_time
                   THEN <<Entry(None, current_time, p.arrival_time)>> ELSE <<>>
       IN /\ schedule' = schedule \o idle \o <<Entry(p.pid, start, end)>>
          /\ completion_times' = DictSet(completion_times, p.pid, end)
          /\ current_time' = end
    /\ loop_i' = loop_i + 1
    /\ UNCHANGED <<app, processes, algorithm, callee, quantum, pc, procs, completed,
                   ready_queue, next_index, remaining, stats>>

\* A variant of the loop exit that is one iteration late: it waits for an
\* index the loop never reaches.
FcfsFinishLate ==
    /\ pc = "loop" /\ callee = "fcfs_scheduling"
    /\ loop_i > n
    /\ stats' = StatsOf(procs)
    /\ pc' = "return"
    /\ UNCHANGED <<app, processes, algorithm, callee, quantum, procs, loop_i, completed,
                   current_time, schedule, completion_times, ready_queue,
                   next_index, remaining>>

\* The loop is over: the stats rows in the order of procs, and the return.
FcfsFinish ==
    /\ pc = "loop" /\ callee = "fcfs_scheduling"
    /\ loop_i >= n
    /\ stats' = StatsOf(procs)
    /\ pc' = "return"
    /\ UNCHANGED <<app, processes, algorithm, callee, quantum, procs, loop_i, completed,
                   current_time, schedule, completion_times, ready_queue,
                   next_index, remaining>>
(***************************************************************************)
(* sjf_scheduling and priority_scheduling: one iteration of                *)
(* "while completed < n".  The two functions differ in the sort key only.  *)
(***************************************************************************)
\* A variant of the idle iteration that moves the clock to the next arrival
\* without an idle entry.
NonPreemptiveIdleSilent ==
    \E idx \in {AdmitIndex(next_index, current_time)},
       queue \in {AdmitQueue(ready_queue, next_index, current_time)} :
        /\ completed < n
        /\ queue = <<>>
        /\ idx < n
        /\ current_time' = procs[idx + 1].arrival_time
        /\ next_index' = idx
        /\ ready_queue' = queue
        /\ UNCHANGED <<app, processes, algorithm, callee, quantum, pc, procs, loop_i, schedule,
                       completed, completion_times, remaining, stats>>

\* A variant of the idle iteration that idles until the last arrival instead of
\* the next one.
NonPreemptiveIdleToLast ==
    \E idx \in {AdmitIndex(next_index, current_time)},
       queue \in {AdmitQueue(ready_queue, next_index, current_time)} :
        /\ completed < n
        /\ queue = <<>>
        /\ idx < n
        /\ LET next_arrival == procs[n].arrival_time
           IN /\ schedule' = IF current_time < next_arrival
                             THEN Append(schedule, Entry(None, current_time, next_arrival))
                             ELSE schedule
              /\ current_time' = next_arrival
        /\ next_index' = idx
        /\ ready_queue' = queue
        /\ UNCHANGED <<app, processes, algorithm, callee, quantum, pc, procs, loop_i,
                       completed, completion_times, remaining, stats>>

\* The iteration that finds the ready queue empty: idle until the next arrival.
\* idx and queue are next_index and ready_queue after the admission loop.
NonPreemptiveIdle ==
    \E idx \in {AdmitIndex(next_index, current_time)},
       queue \in {AdmitQueue(ready_queue, next_index, current_time)} :
        /\ completed < n
        /\ queue = <<>>
        /\ idx < n
        /\ LET next_arrival == procs[idx + 1].arrival_time
           IN /\ schedule' = IF current_time < next_arrival
                             THEN Append(schedule, Entry(None, current_time, next_arrival))
                             ELSE schedule
              /\ current_time' = next_arrival
        /\ next_index' = idx
        /\ ready_queue' = queue
        /\ UNCHANGED <<app, processes, algorithm, callee, quantum, pc, procs, loop_i,
                       completed, completion_times, remaining, stats>>

\* A variant of the dispatch that emits one entry for every unit of the burst.
NonPreemptiveDispatchByUnit(sorted) ==
    /\ completed < n
    /\ sorted # <<>>
    /\ LET current == Head(sorted)
           end == current_time + current.burst_time
       IN /\ schedule' = schedule \o [u \in 1..current.burst_time |->
                                       Entry(current.pid, current_time + u - 1,
                                             current_time + u)]
          /\ completion_times' = DictSet(completion_times, current.pid, end)
          /\ current_time' = end
    /\ ready_queue' = Tail(sorted)
    /\ completed' = completed + 1
    /\ next_index' = AdmitIndex(next_index, current_time)
    /\ UNCHANGED <<app, processes, algorithm, callee, quantum, pc, procs, loop_i,
                   remaining, stats>>

\* The iteration that dispatches: sorted is the ready queue after the
\* admission loop and its sort.
NonPreemptiveDispatch(sorted) ==
    /\ completed < n
    /\ sorted # <<>>
    /\ LET current == Head(sorted)
           end == current_time + current.burst_time
       IN /\ schedule' = Append(schedule, Entry(current.pid, current_time, end))
          /\ completion_times' = DictSet(completion_times, current.pid, end)
          /\ current_time' = end
    /\ ready_queue' = Tail(sorted)
    /\ completed' = completed + 1
    /\ next_index' = AdmitIndex(next_index, current_time)
    /\ UNCHANGED <<app, processes, algorithm, callee, quantum, pc, procs, loop_i,
                   remaining, stats>>

\* The loop is over: the stats rows in pid order, and the return.
SortedFinish ==
    /\ stats' = StatsOf(SortedByPid(procs))
    /\ pc' = "return"
    /\ UNCHANGED <<app, processes, algorithm, callee, quantum, procs, loop_i, completed,
                   current_time, schedule, completion_times, ready_queue,
                   next_index, remaining>>

SjfIdle ==
    /\ pc = "loop" /\ callee = "sjf_scheduling"
    /\ NonPreemptiveIdle

SjfDispatch ==
    /\ pc = "loop" /\ callee = "sjf_scheduling"
    /\ \E queue \in {AdmitQueue(ready_queue, next_index, current_time)} :
       \E sorted \in {SortedByBurst(queue)} :
          NonPreemptiveDispatch(sorted)

SjfFinish ==
    /\ pc = "loop" /\ callee = "sjf_scheduling"
    /\ completed >= n
    /\ SortedFinish

PriorityIdle ==
    /\ pc = "loop" /\ callee = "priority_scheduling"
    /\ NonPreemptiveIdle

PriorityDispatch ==
    /\ pc = "loop" /\ callee = "priority_scheduling"
    /\ \E queue \in {AdmitQueue(ready_queue, next_index, current_time)} :
       \E sorted \in {SortedByPriority(queue)} :
          NonPreemptiveDispatch(sorted)

PriorityFinish ==
    /\ pc = "loop" /\ callee = "priority_scheduling"
    /\ completed >= n
    /\ SortedFinish

(***************************************************************************)
(* sjf_preemptive_scheduling and priority_preemptive_scheduling: one       *)
(* iteration of "while len(completion_times) < n".  The two functions      *)
(* differ in the sort key only.                                            *)
(***************************************************************************)
\* The iteration that finds the ready queue empty while arrivals are left:
\* the idle block is opened, or the idle block that ends now is extended.
\* idx and queue are next_index and ready_queue after the admission loop.
PreemptiveIdle ==
    \E idx \in {AdmitIndex(next_index, current_time)},
       queue \in {AdmitQueue(ready_queue, next_index, current_time)} :
        /\ Cardinality(DOMAIN completion_times) < n
        /\ queue = <<>>
        /\ idx < n
        /\ LET next_arrival == procs[idx + 1].arrival_time
           IN /\ schedule' =
                    IF current_time < next_arrival
                    THEN IF /\ schedule # <<>>
                            /\ Last(schedule).pid = None
                            /\ Last(schedule).end = current_time
                         THEN Append(Front(schedule),
                                     Entry(None, Last(schedule).start, next_arrival))
                         ELSE Append(schedule, Entry(None, current_time, next_arrival))
                    ELSE schedule
              /\ current_time' = next_arrival
        /\ next_index' = idx
        /\ ready_queue' = queue
        /\ UNCHANGED <<app, processes, algorithm, callee, quantum, pc, procs, loop_i,
                       completed, completion_times, remaining, stats>>

\* The defensive exit: the ready queue is empty and no arrival is left.  The
\* stats loop that follows reads completion_times[p.pid] of every process.
PreemptiveBreak ==
    /\ Cardinality(DOMAIN completion_times) < n
    /\ AdmitQueue(ready_queue, next_index, current_time) = <<>>
    /\ AdmitIndex(next_index, current_time) >= n
    /\ IF \A i \in 1..n : procs[i].pid \in DOMAIN completion_times
       THEN /\ stats' = StatsOf(SortedByPid(procs))
            /\ pc' = "return"
       ELSE /\ stats' = <<>>
            /\ pc' = "KeyError"
    /\ UNCHANGED <<app, processes, algorithm, callee, quantum, procs, loop_i, completed,
                   current_time, schedule, completion_times, ready_queue,
                   next_index, remaining>>

\* A variant of the time unit that appends an entry for every unit.
PreemptiveRunNoMerge(sorted) ==
    /\ Cardinality(DOMAIN completion_times) < n
    /\ sorted # <<>>
    /\ LET pid == Head(sorted).pid
           left == remaining[pid] - 1
       IN /\ schedule' = Append(schedule, Entry(pid, current_time, current_time + 1))
          /\ remaining' = DictSet(remaining, pid, left)
          /\ completion_times' = IF left = 0
                                 THEN DictSet(completion_times, pid, current_time + 1)
                                 ELSE completion_times
          /\ ready_queue' = IF left = 0 THEN WithoutPid(sorted, pid) ELSE sorted
    /\ current_time' = current_time + 1
    /\ next_index' = AdmitIndex(next_index, current_time)
    /\ UNCHANGED <<app, processes, algorithm, callee, quantum, pc, procs, loop_i,
                   completed, stats>>

\* The iteration that runs the head of the ready queue for one unit: sorted
\* is the ready queue after the admission loop and its sort.
PreemptiveRun(sorted) ==
    /\ Cardinality(DOMAIN completion_times) < n
    /\ sorted # <<>>
    /\ LET pid == Head(sorted).pid
           left == remaining[pid] - 1
       IN /\ schedule' =
                IF /\ schedule # <<>>
                   /\ Last(schedule).pid = pid
                   /\ Last(schedule).end = current_time
                THEN Append(Front(schedule),
                            Entry(pid, Last(schedule).start, Last(schedule).end + 1))
                ELSE Append(schedule, Entry(pid, current_time, current_time + 1))
          /\ remaining' = DictSet(remaining, pid, left)
          /\ completion_times' = IF left = 0
                                 THEN DictSet(completion_times, pid, current_time + 1)
                                 ELSE completion_times
          /\ ready_queue' = IF left = 0 THEN WithoutPid(sorted, pid) ELSE sorted
    /\ current_time' = current_time + 1
    /\ next_index' = AdmitIndex(next_index, current_time)
    /\ UNCHANGED <<app, processes, algorithm, callee, quantum, pc, procs, loop_i,
                   completed, stats>>

\* A key that reads the burst time in place of the remaining time.
\* A variant that prefers the longest remaining time.
RemainingKeyLongest(p) == <<0 - remaining[p.pid], p.arrival_time>> \o PidStr(p.pid)

RemainingKeyStale(p) == <<p.burst_time, p.arrival_time>> \o PidStr(p.pid)

\* ready_queue.sort(key=(remaining[p.pid], arrival_time, pid))
RemainingKey(p) == <<remaining[p.pid], p.arrival_time>> \o PidStr(p.pid)

SortedByRemaining(ps) == SortByKeys(ps, [i \in 1..Len(ps) |-> RemainingKey(ps[i])])

SrtfIdle ==
    /\ pc = "loop" /\ callee = "sjf_preemptive_scheduling"
    /\ PreemptiveIdle

SrtfBreak ==
    /\ pc = "loop" /\ callee = "sjf_preemptive_scheduling"
    /\ PreemptiveBreak

SrtfRun ==
    /\ pc = "loop" /\ callee = "sjf_preemptive_scheduling"
    /\ \E queue \in {AdmitQueue(ready_queue, next_index, current_time)} :
       \E sorted \in {SortedByRemaining(queue)} :
          PreemptiveRun(sorted)

SrtfFinish ==
    /\ pc = "loop" /\ callee = "sjf_preemptive_scheduling"
    /\ Cardinality(DOMAIN completion_times) >= n
    /\ SortedFinish

PriorityPreemptiveIdle ==
    /\ pc = "loop" /\ callee = "priority_preemptive_scheduling"
    /\ PreemptiveIdle

PriorityPreemptiveBreak ==
    /\ pc = "loop" /\ callee = "priority_preemptive_scheduling"
    /\ PreemptiveBreak

\* A variant that does not sort the ready queue: the process at its head
\* keeps the CPU whatever arrives.
PriorityPreemptiveRunNoSort ==
    /\ pc = "loop" /\ callee = "priority_preemptive_scheduling"
    /\ \E queue \in {AdmitQueue(ready_queue, next_index, current_time)} :
          PreemptiveRun(queue)

PriorityPreemptiveRun ==
    /\ pc = "loop" /\ callee = "priority_preemptive_scheduling"
    /\ \E queue \in {AdmitQueue(ready_queue, next_index, current_time)} :
       \E sorted \in {SortedByPriority(queue)} :
          PreemptiveRun(sorted)

PriorityPreemptiveFinish ==
    /\ pc = "loop" /\ callee = "priority_preemptive_scheduling"
    /\ Cardinality(DOMAIN completion_times) >= n
    /\ SortedFinish
(***************************************************************************)
(* round_robin_scheduling: one iteration of                                *)
(* "while len(completion_times) < n".                                      *)
(***************************************************************************)
\* A variant of min that returns its first argument: the whole quantum.
MinFirst(a, b) == a

Min(a, b) == IF a < b THEN a ELSE b

\* A variant of the idle test with "<=" for "<".
RRJumpsEager ==
    /\ ready_queue = <<>>
    /\ next_index < n
    /\ current_time <= procs[next_index + 1].arrival_time

\* The idle jump at the top of the iteration is taken.
RRJumps ==
    /\ ready_queue = <<>>
    /\ next_index < n
    /\ current_time < procs[next_index + 1].arrival_time

\* The clock and the schedule after the top of the iteration.
RRTimeAtTop == IF RRJumps THEN procs[next_index + 1].arrival_time ELSE current_time

RRScheduleAtTop ==
    IF RRJumps
    THEN Append(schedule, Entry(None, current_time, procs[next_index + 1].arrival_time))
    ELSE schedule

\* A variant of the iteration that dispatches the process of the ready queue
\* with the least remaining time, not the one at its front.
RRStepShortestFirst ==
    /\ pc = "loop" /\ callee = "round_robin_scheduling"
    /\ Cardinality(DOMAIN completion_times) < n
    /\ \E t0 \in {RRTimeAtTop} :
       \E idx0 \in {AdmitIndex(next_index, t0)},
          queue0 \in {AdmitQueue(ready_queue, next_index, t0)} :
        /\ queue0 # <<>>
        /\ \E current \in {Head(SortedByRemaining(queue0))} :
           \E run_time \in {Min(quantum[1], remaining[current.pid])} :
           \E end \in {t0 + run_time}, left \in {remaining[current.pid] - run_time} :
           \E queue1 \in {AdmitQueue(WithoutPid(queue0, current.pid), idx0, end)} :
            /\ schedule' = Append(RRScheduleAtTop, Entry(current.pid, t0, end))
            /\ current_time' = end
            /\ remaining' = DictSet(remaining, current.pid, left)
            /\ next_index' = AdmitIndex(idx0, end)
            /\ ready_queue' = IF left > 0 THEN Append(queue1, current) ELSE queue1
            /\ completion_times' = IF left > 0 THEN completion_times
                                   ELSE DictSet(completion_times, current.pid, end)
    /\ UNCHANGED <<app, processes, algorithm, callee, quantum, pc, procs, loop_i, completed, stats>>

\* A variant that uses the ready queue as a stack: it dispatches the back of
\* the queue and puts the preempted process back before admitting arrivals.
RRStepFromBack ==
    /\ pc = "loop" /\ callee = "round_robin_scheduling"
    /\ Cardinality(DOMAIN completion_times) < n
    /\ \E t0 \in {RRTimeAtTop} :
       \E idx0 \in {AdmitIndex(next_index, t0)},
          queue0 \in {AdmitQueue(ready_queue, next_index, t0)} :
        /\ queue0 # <<>>
        /\ \E current \in {Last(queue0)} :
           \E run_time \in {Min(quantum[1], remaining[current.pid])} :
           \E end \in {t0 + run_time}, left \in {remaining[current.pid] - run_time} :
           \E queue1 \in {AdmitQueue(IF left > 0 THEN Append(Front(queue0), current)
                                     ELSE Front(queue0), idx0, end)} :
            /\ schedule' = Append(RRScheduleAtTop, Entry(current.pid, t0, end))
            /\ current_time' = end
            /\ remaining' = DictSet(remaining, current.pid, left)
            /\ next_index' = AdmitIndex(idx0, end)
            /\ ready_queue' = queue1
            /\ completion_times' = IF left > 0 THEN completion_times
                                   ELSE DictSet(completion_times, current.pid, end)
    /\ UNCHANGED <<app, processes, algorithm, callee, quantum, pc, procs, loop_i, completed, stats>>

\* A variant of the iteration that puts the process back on the queue before
\* it admits the arrivals of the slice.
RRStepRequeueFirst ==
    /\ pc = "loop" /\ callee = "round_robin_scheduling"
    /\ Cardinality(DOMAIN completion_times) < n
    /\ \E t0 \in {RRTimeAtTop} :
       \E idx0 \in {AdmitIndex(next_index, t0)},
          queue0 \in {AdmitQueue(ready_queue, next_index, t0)} :
        /\ queue0 # <<>>
        /\ \E current \in {Head(queue0)} :
           \E run_time \in {Min(quantum[1], remaining[current.pid])} :
           \E end \in {t0 + run_time}, left \in {remaining[current.pid] - run_time} :
           \E queue1 \in {AdmitQueue(IF left > 0 THEN Append(Tail(queue0), current)
                                     ELSE Tail(queue0), idx0, end)} :
            /\ schedule' = Append(RRScheduleAtTop, Entry(current.pid, t0, end))
            /\ current_time' = end
            /\ remaining' = DictSet(remaining, current.pid, left)
            /\ next_index' = AdmitIndex(idx0, end)
            /\ ready_queue' = queue1
            /\ completion_times' = IF left > 0 THEN completion_times
                                   ELSE DictSet(completion_times, current.pid, end)
    /\ UNCHANGED <<app, processes, algorithm, callee, quantum, pc, procs, loop_i, completed, stats>>

\* The iteration that dispatches the front of the ready queue for one slice.
\* t0 is the clock after the idle jump, idx0 and queue0 are next_index and
\* ready_queue after the first admission loop, queue1 is the ready queue
\* after the second one.
RRStep ==
    /\ pc = "loop" /\ callee = "round_robin_scheduling"
    /\ Cardinality(DOMAIN completion_times) < n
    /\ \E t0 \in {RRTimeAtTop} :
       \E idx0 \in {AdmitIndex(next_index, t0)},
          queue0 \in {AdmitQueue(ready_queue, next_index, t0)} :
        /\ queue0 # <<>>
        /\ \E current \in {Head(queue0)} :
           \E run_time \in {Min(quantum[1], remaining[current.pid])} :
           \E end \in {t0 + run_time}, left \in {remaining[current.pid] - run_time} :
           \E queue1 \in {AdmitQueue(Tail(queue0), idx0, end)} :
            /\ schedule' = Append(RRScheduleAtTop, Entry(current.pid, t0, end))
            /\ current_time' = end
            /\ remaining' = DictSet(remaining, current.pid, left)
            /\ next_index' = AdmitIndex(idx0, end)
            /\ ready_queue' = IF left > 0 THEN Append(queue1, current) ELSE queue1
            /\ completion_times' = IF left > 0 THEN completion_times
                                   ELSE DictSet(completion_times, current.pid, end)
    /\ UNCHANGED <<app, processes, algorithm, callee, quantum, pc, procs, loop_i, completed, stats>>

\* The iteration that finds the ready queue empty after admitting: "continue".
\* Nothing is left to arrive, so the iteration changes nothing and the loop
\* condition is evaluated again on the same state.
RRContinue ==
    /\ pc = "loop" /\ callee = "round_robin_scheduling"
    /\ Cardinality(DOMAIN completion_times) < n
    /\ AdmitQueue(ready_queue, next_index, RRTimeAtTop) = <<>>
    /\ UNCHANGED vars

RRFinish ==
    /\ pc = "loop" /\ callee = "round_robin_scheduling"
    /\ Cardinality(DOMAIN completion_times) >= n
    /\ SortedFinish

(***************************************************************************)
(* The specification: every call on a valid process table.                 *)
(***************************************************************************)
\* An iteration of the loop of the function that runs, or its return.
LoopStep ==
    \/ FcfsStep \/ FcfsFinish
    \/ SjfIdle \/ SjfDispatch \/ SjfFinish
    \/ SrtfIdle \/ SrtfRun \/ SrtfFinish
    \/ PriorityIdle \/ PriorityDispatch \/ PriorityFinish
    \/ PriorityPreemptiveIdle \/ PriorityPreemptiveRun \/ PriorityPreemptiveFinish
    \/ RRStep \/ RRFinish

Next == RunAlgorithm \/ LoopStep

Spec == Init /\ [][Next]_vars

\* A function that was called runs on: the loop of a single thread, with no
\* suspension point, always takes its next step.
SpecFair == Spec /\ WF_vars(LoopStep)

(***************************************************************************)
(* Vocabulary of the properties.                                           *)
(***************************************************************************)
\* A call on a non-empty table has returned its (schedule, stats).
Returned == pc = "return" /\ processes # <<>>

PidsOf(ps) == {ps[i].pid : i \in 1..Len(ps)}

\* The input process of a pid.
ProcOf(pid) == CHOOSE p \in {processes[i] : i \in 1..Len(processes)} : p.pid = pid

\* The stats row of a pid.
RowOf(pid) == CHOOSE r \in {stats[i] : i \in 1..Len(stats)} : r.pid = pid

\* The positions of the schedule entries of a pid in the schedule sched.
EntriesOf(sched, pid) == {i \in 1..Len(sched) : sched[i].pid = pid}

\* The total length of the entries of a pid.
RECURSIVE BusyOf(_, _)
BusyOf(sched, pid) ==
    IF sched = <<>> THEN 0
    ELSE (IF Head(sched).pid = pid THEN Head(sched).end - Head(sched).start ELSE 0)
         + BusyOf(Tail(sched), pid)

\* p is arrived and unfinished at time t, before the step that is taken at t.
ReadyAt(p, t) == p.arrival_time <= t /\ p.pid \notin DOMAIN completion_times

\* The three-level order: primary criterion, then arrival_time, then pid.
Precedes(c1, p1, c2, p2) ==
    \/ c1 < c2
    \/ c1 = c2 /\ p1.arrival_time < p2.arrival_time
    \/ c1 = c2 /\ p1.arrival_time = p2.arrival_time
               /\ LexLess(PidStr(p1.pid), PidStr(p2.pid))

\* The step appends a new entry of a process, or extends the last entry.
Dispatches == schedule' # schedule /\ Last(schedule').pid # None

(***************************************************************************)
(* C1.  Every algorithm, every valid non-empty table: every row of the     *)
(* returned stats has waiting_time >= 0 and turnaround_time >= burst_time. *)
(***************************************************************************)
C1_WaitingNonNegative ==
    Returned =>
        /\ Len(stats) = Len(processes)
        /\ \A i \in 1..Len(stats) :
            /\ stats[i].waiting_time >= 0
            /\ stats[i].turnaround_time >= stats[i].burst_time

C1_Witness ==
    /\ Returned /\ algorithm = "RR" /\ Len(stats) >= 2
    /\ \E i \in 1..Len(stats) : stats[i].waiting_time > 0
    /\ \E i \in 1..Len(stats) : stats[i].waiting_time = 0

(***************************************************************************)
(* C2.  Every algorithm, every valid non-empty table: the returned         *)
(* schedule is ordered by start, starts at 0, each entry starts where the  *)
(* previous one ends, and the last entry ends at the greatest              *)
(* completion_time.                                                        *)
(***************************************************************************)
C2_ScheduleCoverage ==
    Returned =>
        /\ schedule # <<>>
        /\ schedule[1].start = 0
        /\ \A i \in 1..(Len(schedule) - 1) :
            /\ schedule[i + 1].start = schedule[i].end
            /\ schedule[i].start <= schedule[i + 1].start
        /\ \E i \in 1..Len(stats) : stats[i].completion_time = Last(schedule).end
        /\ \A i \in 1..Len(stats) : stats[i].completion_time <= Last(schedule).end

C2_Witness ==
    /\ Returned /\ algorithm = "SJF" /\ Len(schedule) >= 3
    /\ schedule[1].pid = None

(***************************************************************************)
(* C3.  Merge invariant: in the schedule every algorithm returns, Round    *)
(* Robin included, no two adjacent entries have the same pid and no two    *)
(* adjacent entries are both idle.                                         *)
(***************************************************************************)
C3_MergeInvariant ==
    Returned =>
        \A i \in 1..(Len(schedule) - 1) : schedule[i].pid # schedule[i + 1].pid

(***************************************************************************)
(* C4.  Every algorithm, every valid table, every process p: the entries   *)
(* of p add up to p.burst_time, none starts before p.arrival_time, and     *)
(* p's completion_time is the end of its last entry.                       *)
(***************************************************************************)
C4_BurstAccounting ==
    Returned =>
        \A k \in 1..Len(processes) :
            LET p == processes[k]
                mine == EntriesOf(schedule, p.pid)
            IN /\ BusyOf(schedule, p.pid) = p.burst_time
               /\ mine # {}
               /\ \A i \in mine : schedule[i].start >= p.arrival_time
               /\ \A i \in mine : schedule[i].end <= RowOf(p.pid).completion_time
               /\ \E i \in mine : schedule[i].end = RowOf(p.pid).completion_time

C4_Witness ==
    /\ Returned /\ algorithm = "SJF_PREEMPTIVE"
    /\ \E k \in 1..Len(processes) :
          Cardinality(EntriesOf(schedule, processes[k].pid)) >= 2
(***************************************************************************)
(* C5.  Every algorithm, every valid table (quantum > 0 for Round Robin):  *)
(* the loop terminates, and on termination every process has a recorded    *)
(* completion_time and stats holds exactly one row per input process.      *)
(***************************************************************************)
C5_Termination ==
    /\ [](pc = "loop" => <>(pc = "return"))
    /\ [](Returned =>
            /\ DOMAIN completion_times = PidsOf(processes)
            /\ Len(stats) = Len(processes)
            /\ \A k \in 1..Len(processes) :
                  Cardinality({i \in 1..Len(stats) : stats[i].pid = processes[k].pid}) = 1)

C5_Witness ==
    /\ Returned /\ algorithm = "PRIORITY_PREEMPTIVE"
    /\ Len(stats) = 3 /\ Len(schedule) >= 4

(***************************************************************************)
(* C6.  FCFS runs the processes in ascending (arrival_time, pid) order,    *)
(* each in a single entry of its burst_time, with exactly one idle entry   *)
(* [clock, arrival) before a process that arrives strictly later than the  *)
(* clock, and no idle entry otherwise.                                     *)
(***************************************************************************)
\* The clock when the entry at position i was about to be emitted: the end
\* of the process entry before it (0 when there is none), whether or not an
\* idle entry lies between.
ClockBefore(i) ==
    IF i = 1 THEN 0
    ELSE IF schedule[i - 1].pid # None THEN schedule[i - 1].end
    ELSE IF i = 2 THEN 0
    ELSE schedule[i - 2].end

C6_FcfsOrder ==
    (Returned /\ algorithm = "FCFS") =>
        /\ \A k \in 1..Len(processes) :
            \E i \in 1..Len(schedule) :
                /\ EntriesOf(schedule, processes[k].pid) = {i}
                /\ schedule[i].end - schedule[i].start = processes[k].burst_time
        /\ \A i \in 1..Len(schedule), j \in 1..Len(schedule) :
            (i < j /\ schedule[i].pid # None /\ schedule[j].pid # None) =>
                Precedes(0, ProcOf(schedule[i].pid), 0, ProcOf(schedule[j].pid))
        /\ \A i \in 1..Len(schedule) :
            IF schedule[i].pid = None
            THEN /\ i < Len(schedule)
                 /\ schedule[i + 1].pid # None
                 /\ i > 1 => schedule[i - 1].pid # None
            ELSE LET p == ProcOf(schedule[i].pid)
                     clock == ClockBefore(i)
                 IN IF p.arrival_time > clock
                    THEN /\ i > 1
                         /\ schedule[i - 1] = Entry(None, clock, p.arrival_time)
                         /\ schedule[i].start = p.arrival_time
                    ELSE /\ i > 1 => schedule[i - 1].pid # None
                         /\ schedule[i].start = clock

C6_Witness ==
    /\ Returned /\ algorithm = "FCFS"
    /\ Len(schedule) = 3
    /\ schedule[1].pid = None
    /\ schedule[2].pid = 10 /\ schedule[3].pid = 2

(***************************************************************************)
(* C7.  Non-preemptive SJF: the process dispatched at time t is the        *)
(* minimum, under (burst_time, arrival_time, pid), of the processes that   *)
(* have arrived by t and have not completed.                               *)
(***************************************************************************)
C7_SjfSelection ==
    [][(algorithm = "SJF" /\ pc = "loop" /\ Dispatches) =>
          LET e == Last(schedule')
              d == ProcOf(e.pid)
          IN /\ Len(schedule') = Len(schedule) + 1
             /\ e.start = current_time
             /\ ReadyAt(d, e.start)
             /\ \A k \in 1..Len(processes) :
                  LET q == processes[k]
                  IN (ReadyAt(q, e.start) /\ q.pid # d.pid) =>
                        Precedes(d.burst_time, d, q.burst_time, q)]_vars

\* SJF has dispatched a process while one that arrived no later, with a
\* smaller pid text, was ready: the shorter burst decided.
C7_Witness ==
    /\ algorithm = "SJF" /\ pc = "loop" /\ schedule # <<>>
    /\ Last(schedule).pid # None
    /\ \E k \in 1..Len(processes) :
          LET q == processes[k]
              d == ProcOf(Last(schedule).pid)
          IN /\ q.pid \notin DOMAIN completion_times
             /\ q.arrival_time <= Last(schedule).start
             /\ Precedes(0, q, 0, d)
             /\ d.burst_time < q.burst_time

(***************************************************************************)
(* C8.  SRTF: in every unit [t, t+1) in which the CPU is not idle, the     *)
(* process that runs is the minimum, under (remaining time at t,           *)
(* arrival_time, pid), of the processes that have arrived by t and have    *)
(* not completed, and its remaining time decreases by exactly 1.           *)
(***************************************************************************)
\* The step runs the process of the last entry in the unit [t, t+1).
RunsUnit(t) ==
    /\ current_time' = t + 1
    /\ Last(schedule').end = t + 1
    /\ Last(schedule').start <= t
    /\ \/ Len(schedule') = Len(schedule) + 1 /\ Last(schedule').start = t
       \/ /\ Len(schedule') = Len(schedule) /\ schedule # <<>>
          /\ Last(schedule).pid = Last(schedule').pid
          /\ Last(schedule).end = t
          /\ Last(schedule).start = Last(schedule').start

C8_SrtfSelection ==
    [][(algorithm = "SJF_PREEMPTIVE" /\ pc = "loop" /\ Dispatches) =>
          LET d == ProcOf(Last(schedule').pid)
              t == current_time
          IN /\ RunsUnit(t)
             /\ ReadyAt(d, t)
             /\ remaining'[d.pid] = remaining[d.pid] - 1
             /\ \A k \in 1..Len(processes) :
                  LET q == processes[k]
                  IN (ReadyAt(q, t) /\ q.pid # d.pid) =>
                        /\ Precedes(remaining[d.pid], d, remaining[q.pid], q)
                        /\ remaining'[q.pid] = remaining[q.pid]]_vars

\* A process was preempted: its entry has ended, it has not completed, and
\* another process runs right after it.
C8_Witness ==
    /\ algorithm = "SJF_PREEMPTIVE" /\ pc = "loop"
    /\ Len(schedule) >= 2
    /\ schedule[Len(schedule) - 1].pid # None
    /\ schedule[Len(schedule) - 1].pid \notin DOMAIN completion_times
    /\ Last(schedule).pid # None
    /\ Last(schedule).start = schedule[Len(schedule) - 1].end

(***************************************************************************)
(* C9.  Non-preemptive Priority: the process dispatched at a decision      *)
(* point t is the minimum, under (priority, arrival_time, pid) with the    *)
(* lower priority value first, of the processes that have arrived by t and *)
(* have not completed.                                                     *)
(***************************************************************************)
C9_PrioritySelection ==
    [][(algorithm = "PRIORITY" /\ pc = "loop" /\ Dispatches) =>
          LET e == Last(schedule')
              d == ProcOf(e.pid)
          IN /\ Len(schedule') = Len(schedule) + 1
             /\ e.start = current_time
             /\ e.end = current_time + d.burst_time
             /\ ReadyAt(d, e.start)
             /\ \A k \in 1..Len(processes) :
                  LET q == processes[k]
                  IN (ReadyAt(q, e.start) /\ q.pid # d.pid) =>
                        Precedes(d.priority, d, q.priority, q)]_vars

\* Priority has dispatched a process while one that arrived no later, with a
\* smaller pid text, was ready: the lower priority value decided.
C9_Witness ==
    /\ algorithm = "PRIORITY" /\ pc = "loop" /\ schedule # <<>>
    /\ Last(schedule).pid # None
    /\ \E k \in 1..Len(processes) :
          LET q == processes[k]
              d == ProcOf(Last(schedule).pid)
          IN /\ q.pid \notin DOMAIN completion_times
             /\ q.arrival_time <= Last(schedule).start
             /\ Precedes(0, q, 0, d)
             /\ d.priority < q.priority

(***************************************************************************)
(* C10.  Preemptive Priority: in every unit [t, t+1) in which the CPU is   *)
(* not idle, the process that runs is the minimum, under (priority,        *)
(* arrival_time, pid), of the processes that have arrived by t and have    *)
(* not completed.  A process that arrives at time a with a strictly lower  *)
(* priority value than the process running just before a takes the CPU     *)
(* from it at a: the unit [a, a+1) goes to the minimum, under (priority,   *)
(* arrival_time, pid), of the processes arriving at a, which is that       *)
(* process when no other arrival at a precedes it.                         *)
(***************************************************************************)
\* The process of the entry that ends at the clock: the one running just
\* before the step.
RanJustBefore(r) ==
    /\ schedule # <<>>
    /\ Last(schedule).pid = r.pid
    /\ Last(schedule).end = current_time

\* p arrives at the clock with a strictly lower priority value than the
\* process running just before.
ArrivesAbove(p) ==
    /\ p.arrival_time = current_time
    /\ \E k \in 1..Len(processes) :
          RanJustBefore(processes[k]) /\ p.priority < processes[k].priority

PriorityPreemptiveUnit ==
    LET d == ProcOf(Last(schedule').pid)
        t == current_time
    IN /\ RunsUnit(t)
       /\ ReadyAt(d, t)
       /\ remaining'[d.pid] = remaining[d.pid] - 1
       /\ \A k \in 1..Len(processes) :
            LET q == processes[k]
            IN (ReadyAt(q, t) /\ q.pid # d.pid) =>
                  /\ Precedes(d.priority, d, q.priority, q)
                  /\ remaining'[q.pid] = remaining[q.pid]

C10_PreemptionAtArrival ==
    [][(algorithm = "PRIORITY_PREEMPTIVE" /\ pc = "loop" /\ schedule' # schedule) =>
          /\ Last(schedule').pid # None => PriorityPreemptiveUnit
          /\ \A k \in 1..Len(processes) :
               LET p == processes[k]
               IN ArrivesAbove(p) =>
                     /\ Last(schedule').pid # None
                     /\ Last(schedule').start = current_time
                     /\ ProcOf(Last(schedule').pid).arrival_time = current_time
                     /\ (\A j \in 1..Len(processes) :
                            (processes[j].arrival_time = current_time /\ j # k) =>
                                Precedes(p.priority, p,
                                         processes[j].priority, processes[j]))
                          => Last(schedule').pid = p.pid]_vars

\* The claim as stated: every process that arrives at a with a strictly
\* lower priority value than the process running just before a runs in
\* [a, a+1).
C10_Original ==
    [][(algorithm = "PRIORITY_PREEMPTIVE" /\ pc = "loop" /\ schedule' # schedule) =>
          /\ Last(schedule').pid # None => PriorityPreemptiveUnit
          /\ \A k \in 1..Len(processes) :
               ArrivesAbove(processes[k]) =>
                  /\ Last(schedule').pid = processes[k].pid
                  /\ Last(schedule').start = current_time
                  /\ Last(schedule').end = current_time + 1]_vars

\* Two processes arrived at the same instant with a lower priority value
\* than the unfinished process that was running: the first under the order
\* has taken the CPU, the other one waits.
C10_Witness ==
    /\ algorithm = "PRIORITY_PREEMPTIVE" /\ pc = "loop"
    /\ Len(schedule) >= 2
    /\ LET prev == schedule[Len(schedule) - 1]
           e == Last(schedule)
       IN /\ prev.pid # None /\ e.pid # None
          /\ prev.pid \notin DOMAIN completion_times
          /\ e.start = ProcOf(e.pid).arrival_time
          /\ e.end = e.start + 1
          /\ current_time = e.end
          /\ ProcOf(e.pid).priority < ProcOf(prev.pid).priority
          /\ \E k \in 1..Len(processes) :
                /\ processes[k].pid # e.pid
                /\ processes[k].arrival_time = e.start
                /\ processes[k].priority < ProcOf(prev.pid).priority
                /\ processes[k].pid \notin DOMAIN completion_times

(***************************************************************************)
(* C11.  Round Robin: when a process p ends a slice at time t with         *)
(* remaining time > 0, the processes that arrived during the slice are     *)
(* appended to the ready queue, in (arrival_time, pid) order, before p is  *)
(* re-appended; so every other arrived unfinished process is ahead of p in *)
(* the queue and gets its next slice before p gets its next one.           *)
(***************************************************************************)
\* The processes that arrive during the slice e, in the order of procs: the
\* ones the admission loop after the slice appends.
ArrivedDuring(e) ==
    SelectSeq(procs, LAMBDA q : e.start < q.arrival_time /\ q.arrival_time <= e.end)

\* The positions of the schedule sched that hold the next entry of the pid
\* of position i: the first later entry of the same pid.
NextSliceOf(sched, i) ==
    {j \in (i + 1)..Len(sched) :
        /\ sched[j].pid = sched[i].pid
        /\ \A k \in (i + 1)..(j - 1) : sched[k].pid # sched[i].pid}

C11_ArrivalsBeforeRequeue ==
    /\ [][(algorithm = "RR" /\ pc = "loop" /\ Dispatches
             /\ remaining'[Last(schedule').pid] > 0) =>
            LET e == Last(schedule')
                during == ArrivedDuring(e)
                len == Len(ready_queue')
            IN /\ len >= 1 + Len(during)
               /\ ready_queue'[len].pid = e.pid
               /\ SubSeq(ready_queue', len - Len(during), len - 1) = during
               /\ \A k \in 1..Len(processes) :
                    LET q == processes[k]
                    IN (q.arrival_time <= e.end /\ q.pid # e.pid
                          /\ q.pid \notin DOMAIN completion_times') =>
                         \E j \in 1..(len - 1) : ready_queue'[j].pid = q.pid]_vars
    /\ [](algorithm = "RR" =>
            \A i \in 1..Len(schedule) : \A j \in NextSliceOf(schedule, i) :
                \A k \in 1..Len(processes) :
                    LET q == processes[k]
                    IN (schedule[i].pid # None /\ q.pid # schedule[i].pid
                          /\ q.arrival_time <= schedule[i].end
                          /\ \A m \in 1..i : ~(schedule[m].pid = q.pid
                                                /\ q.pid \in DOMAIN completion_times
                                                /\ completion_times[q.pid] = schedule[m].end)) =>
                         \E m \in (i + 1)..(j - 1) : schedule[m].pid = q.pid)

\* A process has been put back on the queue behind one that arrived during
\* its slice, and that arrival has since run before the process ran again.
C11_Witness ==
    /\ algorithm = "RR" /\ pc = "loop"
    /\ Len(schedule) >= 3
    /\ LET i == Len(schedule) - 2
       IN /\ schedule[i].pid # None
          /\ schedule[i + 2].pid = schedule[i].pid
          /\ schedule[i + 1].pid # None
          /\ schedule[i + 1].pid # schedule[i].pid
          /\ ProcOf(schedule[i + 1].pid).arrival_time > schedule[i].start
          /\ ProcOf(schedule[i + 1].pid).arrival_time = schedule[i].end

(***************************************************************************)
(* Round Robin on simultaneous arrivals: every process of the table        *)
(* arrives at the same time a, and the quantum is positive.                *)
(***************************************************************************)
InitRotation ==
    /\ \E len \in 1..MaxProcs, a \in 0..MaxArrival, q \in 1..MaxQuantum :
         \E bs \in [1..len -> 1..MaxRotationBurst] :
            /\ processes = Table(len, [i \in 1..len |-> a], bs,
                                 [i \in 1..len |-> DefaultPriority])
            /\ quantum = <<q>>
    /\ algorithm = "RR"
    /\ quantum_text = <<>> /\ AppIdle
    /\ callee = NoFunction
    /\ pc = "call"
    /\ procs = <<>>
    /\ loop_i = 0
    /\ completed = 0
    /\ current_time = 0
    /\ schedule = <<>>
    /\ completion_times = EmptyDict
    /\ ready_queue = <<>>
    /\ next_index = 0
    /\ remaining = EmptyDict
    /\ stats = <<>>

NextRotation == RunAlgorithm \/ RRStep \/ RRFinish

SpecRotation == InitRotation /\ [][NextRotation]_vars

(***************************************************************************)
(* C12.  Round Robin, all processes arriving at the same time, quantum     *)
(* smaller than every burst_time: the slices come in rotations; in the     *)
(* first rotation every process gets exactly one slice of length quantum,  *)
(* in ascending order of the pid text, and in every later rotation the     *)
(* processes still unfinished get exactly one slice each, in the same      *)
(* relative order.                                                         *)
(***************************************************************************)
\* The rotation of the process entry at position i: the number of entries
\* of its pid up to i.
RotationOf(i) ==
    Cardinality({j \in 1..i : schedule[j].pid = schedule[i].pid})

\* The burst time p had left at the start of rotation r.
LeftAtRotation(p, r) == p.burst_time - (r - 1) * quantum[1]

RotationCase ==
    /\ algorithm = "RR" /\ pc \in {"loop", "return"}
    /\ \A k \in 1..Len(processes) :
          /\ processes[k].arrival_time = processes[1].arrival_time
          /\ quantum[1] < processes[k].burst_time

C12_RotationOrder ==
    RotationCase =>
        LET slices == {i \in 1..Len(schedule) : schedule[i].pid # None}
        IN /\ \A i \in 1..Len(schedule) :
                schedule[i].pid = None =>
                    i = 1 /\ schedule[i].end = processes[1].arrival_time
           /\ \A i \in slices :
                LET p == ProcOf(schedule[i].pid)
                    r == RotationOf(i)
                IN /\ LeftAtRotation(p, r) > 0
                   /\ schedule[i].end - schedule[i].start
                        = (IF LeftAtRotation(p, r) < quantum[1]
                           THEN LeftAtRotation(p, r) ELSE quantum[1])
                   /\ r = 1 => schedule[i].end - schedule[i].start = quantum[1]
                   \* every process unfinished at the start of rotation r and
                   \* ahead of p in the order has had its slice of rotation r
                   /\ \A k \in 1..Len(processes) :
                        LET q == processes[k]
                        IN (LeftAtRotation(q, r) > 0 /\ Precedes(0, q, 0, p)) =>
                              \E j \in 1..(i - 1) :
                                  schedule[j].pid = q.pid /\ RotationOf(j) = r
                   \* every process unfinished at the start of the rotation
                   \* before has had its slice of that rotation
                   /\ \A k \in 1..Len(processes) :
                        LET q == processes[k]
                        IN (r > 1 /\ LeftAtRotation(q, r - 1) > 0) =>
                              \E j \in 1..(i - 1) :
                                  schedule[j].pid = q.pid /\ RotationOf(j) = r - 1
           /\ \A i \in slices, j \in slices :
                i < j =>
                    /\ RotationOf(i) <= RotationOf(j)
                    /\ RotationOf(i) = RotationOf(j) =>
                          Precedes(0, ProcOf(schedule[i].pid), 0, ProcOf(schedule[j].pid))
           /\ pc = "return" =>
                \A k \in 1..Len(processes) :
                    \E i \in slices :
                        /\ schedule[i].pid = processes[k].pid
                        /\ LeftAtRotation(processes[k], RotationOf(i)) <= quantum[1]

\* A returned run of three processes in which P10 ran before P2 in the
\* first rotation and one process dropped out before the last rotation.
C12_Witness ==
    /\ RotationCase /\ pc = "return"
    /\ Len(processes) = 3
    /\ \E i \in 1..(Len(schedule) - 1) :
          /\ schedule[i].pid = 10 /\ schedule[i + 1].pid = 2
          /\ RotationOf(i) = 1
    /\ \E k \in 1..3 : LeftAtRotation(processes[k], RotationOf(Len(schedule))) <= 0

(***************************************************************************)
(* C13.  Round Robin called with quantum <= 0 fails with ValueError and    *)
(* returns no schedule and no stats, whatever the process list.            *)
(***************************************************************************)
\* The call has been made: it has raised, returned, or is in its loop.
Called == pc # "call"

C13_QuantumRejected ==
    (Called /\ algorithm = "RR" /\ quantum # <<>> /\ quantum[1] <= 0) =>
        /\ pc = "ValueError"
        /\ schedule = <<>>
        /\ stats = <<>>

(***************************************************************************)
(* C14.  On an empty process list a call returns ([], []) and raises no    *)
(* error, for each of the five algorithms that take no quantum, and for    *)
(* Round Robin when it is given a positive quantum; Round Robin called     *)
(* without a quantum raises ValueError on the empty list too.              *)
(***************************************************************************)
ReturnsEmpty == pc = "return" /\ schedule = <<>> /\ stats = <<>>

C14_EmptyList ==
    (Called /\ processes = <<>> /\ algorithm \in AlgorithmKeys) =>
        /\ algorithm # "RR" => ReturnsEmpty
        /\ (algorithm = "RR" /\ quantum # <<>> /\ quantum[1] > 0) => ReturnsEmpty
        /\ (algorithm = "RR" /\ quantum = <<>>) => pc = "ValueError"

\* The claim as stated: every one of the six identifiers returns ([], []).
C14_Original ==
    (Called /\ processes = <<>> /\ algorithm \in AlgorithmKeys) => ReturnsEmpty

\* Round Robin has returned ([], []) on the empty list.
C14_Witness ==
    /\ Called /\ processes = <<>> /\ algorithm = "RR"
    /\ quantum # <<>> /\ quantum[1] > 0
    /\ ReturnsEmpty

(***************************************************************************)
(* The scheduling functions on any table of Process objects: the functions *)
(* are module-level and take whatever list they are given, so a burst_time *)
(* <= 0 or an arrival_time < 0, which add_process refuses to put in the    *)
(* table, can reach them from any other caller.  A preemptive function     *)
(* does not return on a burst_time <= 0 (remaining never equals 0): the    *)
(* clock of such a run is followed up to MaxRawClock.                      *)
(***************************************************************************)
RawArrivals == (0 - 1)..MaxArrival

RawBursts == (0 - 1)..MaxRawBurst

\* if arrival < 0 or burst <= 0: showerror(...); return
ValidProcess(p) == ~(p.arrival_time < 0 \/ p.burst_time <= 0)

InitRaw ==
    /\ \E alg \in AnyKeys, len \in 0..MaxRawProcs :
         \E q \in (IF alg = "RR" THEN Quanta ELSE {<<>>}),
            ar \in [1..len -> RawArrivals],
            bs \in [1..len -> RawBursts],
            pr \in [1..len -> Priorities(alg)] :
                /\ processes = Table(len, ar, bs, pr)
                /\ algorithm = alg
                /\ quantum = q
    /\ quantum_text = <<>> /\ AppIdle
    /\ callee = NoFunction
    /\ pc = "call"
    /\ procs = <<>>
    /\ loop_i = 0
    /\ completed = 0
    /\ current_time = 0
    /\ schedule = <<>>
    /\ completion_times = EmptyDict
    /\ ready_queue = <<>>
    /\ next_index = 0
    /\ remaining = EmptyDict
    /\ stats = <<>>

RawStep == current_time < MaxRawClock /\ LoopStep

NextRaw == RunAlgorithm \/ RawStep

SpecRaw == InitRaw /\ [][NextRaw]_vars

(***************************************************************************)
(* C15.  A call of any algorithm on a table that holds a process with      *)
(* burst_time <= 0 or arrival_time < 0 is rejected with ValueError before  *)
(* the simulation begins: no schedule entry and no stats row is produced.  *)
(***************************************************************************)
C15_InvalidProcessRejected ==
    (Called /\ algorithm \in AlgorithmKeys
       /\ \E k \in 1..Len(processes) : ~ValidProcess(processes[k])) =>
        /\ pc = "ValueError"
        /\ schedule = <<>>
        /\ stats = <<>>

(***************************************************************************)
(* C16.  A key outside {FCFS, SJF, SJF_PREEMPTIVE, PRIORITY,               *)
(* PRIORITY_PREEMPTIVE, RR} makes _run_algorithm raise ValueError and run  *)
(* no algorithm, whatever the process list; each key of the set is         *)
(* dispatched to its own scheduling function.                              *)
(***************************************************************************)
OwnFunctionOf(key) ==
    CASE key = "FCFS" -> "fcfs_scheduling"
      [] key = "SJF" -> "sjf_scheduling"
      [] key = "SJF_PREEMPTIVE" -> "sjf_preemptive_scheduling"
      [] key = "PRIORITY" -> "priority_scheduling"
      [] key = "PRIORITY_PREEMPTIVE" -> "priority_preemptive_scheduling"
      [] key = "RR" -> "round_robin_scheduling"

C16_ClosedDispatch ==
    Called =>
        IF algorithm \in {"FCFS", "SJF", "SJF_PREEMPTIVE", "PRIORITY",
                          "PRIORITY_PREEMPTIVE", "RR"}
        THEN (algorithm = "RR" => quantum # <<>>) =>
                /\ callee = OwnFunctionOf(algorithm)
                /\ algorithm # "RR" => pc # "ValueError"
        ELSE /\ pc = "ValueError"
             /\ callee = NoFunction
             /\ procs = <<>> /\ schedule = <<>> /\ stats = <<>>

\* An unknown key has been refused on a table of three processes.
C16_Witness ==
    /\ Called /\ pc = "ValueError"
    /\ algorithm = "LOTTERY"
    /\ Len(processes) = 3

(***************************************************************************)
(* _compute_aggregates(schedule, stats).  The value of the float a / b is  *)
(* the fraction in lowest terms <<numerator, denominator>>; an integer k   *)
(* and the float 0.0 are <<k, 1>> and <<0, 1>>.                            *)
(***************************************************************************)
RECURSIVE Gcd(_, _)
Gcd(a, b) == IF b = 0 THEN a ELSE Gcd(b, a % b)

Abs(a) == IF a < 0 THEN 0 - a ELSE a

ZeroDivisionError == "ZeroDivisionError"

\* a / b
Divide(a, b) ==
    IF b = 0 THEN ZeroDivisionError
    ELSE LET g == Gcd(Abs(a), b) IN <<a \div g, b \div g>>

Number(k) == <<k, 1>>

\* sum(f(x) for x in xs), and min and max of a non-empty list of integers
RECURSIVE SumOf(_)
SumOf(xs) == IF xs = <<>> THEN 0 ELSE Head(xs) + SumOf(Tail(xs))

MinOf(xs) == CHOOSE x \in {xs[i] : i \in 1..Len(xs)} : \A i \in 1..Len(xs) : x <= xs[i]

MaxOf(xs) == CHOOSE x \in {xs[i] : i \in 1..Len(xs)} : \A i \in 1..Len(xs) : x >= xs[i]

WaitingTimes(rows) == [i \in 1..Len(rows) |-> rows[i].waiting_time]

TurnaroundTimes(rows) == [i \in 1..Len(rows) |-> rows[i].turnaround_time]

\* total_time = max(entry["end"] for entry in schedule)
TotalTime(sched) == MaxOf([i \in 1..Len(sched) |-> sched[i].end])

\* A variant that counts the idle entries in.
BusyTimeWithIdle(sched) ==
    SumOf([i \in 1..Len(sched) |-> sched[i].end - sched[i].start])

\* busy_time = sum(end - start for entry in schedule if entry["pid"] is not None)
BusyTime(sched) ==
    SumOf([i \in 1..Len(sched) |->
              IF sched[i].pid # None THEN sched[i].end - sched[i].start ELSE 0])

\* A variant of the two ratios without the test "if total_time > 0".
PerTotalTimeUnguarded(x, sched) ==
    IF sched # <<>> THEN Divide(x, TotalTime(sched)) ELSE Number(0)

\* (x / total_time) if total_time > 0 else 0.0, inside "if schedule:"
PerTotalTime(x, sched) ==
    IF sched # <<>>
    THEN (IF TotalTime(sched) > 0 THEN Divide(x, TotalTime(sched)) ELSE Number(0))
    ELSE Number(0)

ComputeAggregates(sched, rows) ==
    [avg_waiting |->
        IF rows # <<>> THEN Divide(SumOf(WaitingTimes(rows)), Len(rows)) ELSE Number(0),
     avg_turnaround |->
        IF rows # <<>> THEN Divide(SumOf(TurnaroundTimes(rows)), Len(rows)) ELSE Number(0),
     min_waiting |-> IF rows # <<>> THEN Number(MinOf(WaitingTimes(rows))) ELSE Number(0),
     max_waiting |-> IF rows # <<>> THEN Number(MaxOf(WaitingTimes(rows))) ELSE Number(0),
     cpu_utilization |-> PerTotalTime(BusyTime(sched), sched),
     throughput |-> PerTotalTime(Len(rows), sched)]

\* The call raises when one of its divisions does.
AggregatesRaise(agg) ==
    \E f \in DOMAIN agg : agg[f] = ZeroDivisionError

(***************************************************************************)
(* _compute_aggregates on any schedule and any stats rows: the two lists   *)
(* are arguments, and need not come from the same run.                     *)
(***************************************************************************)
AggEntries ==
    {Entry(pid, start, end) : pid \in {None, 1},
                              start \in 0..MaxAggTime, end \in 0..MaxAggTime}

AggRows ==
    {[pid |-> 1, arrival_time |-> 0, burst_time |-> 1, priority |-> DefaultPriority,
      completion_time |-> w + 1, turnaround_time |-> w + 1, waiting_time |-> w] :
        w \in 0..MaxAggTime}

InitAggregate ==
    /\ \E k \in 0..MaxAggLen, m \in 0..MaxAggLen :
         \E sched \in [1..k -> {e \in AggEntries : e.start <= e.end}],
            rows \in [1..m -> AggRows] :
                schedule = sched /\ stats = rows
    /\ pc = "aggregate"
    /\ processes = <<>> /\ algorithm = "" /\ callee = NoFunction /\ quantum = <<>>
    /\ procs = <<>> /\ loop_i = 0 /\ completed = 0 /\ current_time = 0
    /\ completion_times = EmptyDict /\ ready_queue = <<>> /\ next_index = 0
    /\ remaining = EmptyDict
    /\ quantum_text = <<>> /\ AppIdle

Aggregate ==
    /\ pc = "aggregate"
    /\ \E agg \in {ComputeAggregates(schedule, stats)} :
        /\ aggregates' = IF AggregatesRaise(agg) THEN NoAggregates ELSE agg
        /\ pc' = IF AggregatesRaise(agg) THEN ZeroDivisionError ELSE "aggregated"
    /\ UNCHANGED <<processes, algorithm, callee, quantum, procs, loop_i, completed,
                   current_time, schedule, completion_times, ready_queue, next_index,
                   remaining, stats, quantum_text, next_pid, message, key_i, comparison, dialog, results>>

SpecAggregate == InitAggregate /\ [][Aggregate]_vars

(***************************************************************************)
(* C17.  _compute_aggregates never divides by zero: with no stats rows the *)
(* two averages and min/max waiting are 0; with no schedule entry, or a    *)
(* makespan of 0, cpu_utilization and throughput are 0; on ([], []) all    *)
(* six metrics are 0.                                                      *)
(***************************************************************************)
\* m is the greatest end of the entries of the schedule.
IsMakespan(m) ==
    /\ \E i \in 1..Len(schedule) : schedule[i].end = m
    /\ \A i \in 1..Len(schedule) : schedule[i].end <= m

IsZero(x) == x = <<0, 1>>

C17_NoDivisionByZero ==
    /\ pc # "ZeroDivisionError"
    /\ pc = "aggregated" =>
        /\ stats = <<>> =>
              /\ IsZero(aggregates.avg_waiting) /\ IsZero(aggregates.avg_turnaround)
              /\ IsZero(aggregates.min_waiting) /\ IsZero(aggregates.max_waiting)
        /\ (schedule = <<>> \/ IsMakespan(0)) =>
              IsZero(aggregates.cpu_utilization) /\ IsZero(aggregates.throughput)
        /\ (schedule = <<>> /\ stats = <<>>) =>
              \A f \in DOMAIN aggregates : IsZero(aggregates[f])

\* The aggregates of a schedule of makespan 0 and two stats rows.
C17_Witness ==
    /\ pc = "aggregated"
    /\ schedule # <<>> /\ IsMakespan(0)
    /\ Len(stats) = 2
    /\ IsZero(aggregates.throughput)

(***************************************************************************)
(* C18.  On a non-empty schedule _compute_aggregates takes the greatest    *)
(* end of the entries as makespan and the total length of the entries      *)
(* that are not idle as busy_time; cpu_utilization is busy_time / makespan *)
(* and throughput is (number of stats rows) / makespan; min_waiting and    *)
(* max_waiting are the least and the greatest waiting_time of the rows.    *)
(***************************************************************************)
\* The float x is the quotient a / b.
IsQuotient(x, a, b) == Len(x) = 2 /\ x[2] > 0 /\ x[1] * b = a * x[2]

\* The total length of the entries of the schedule that are not idle.
RECURSIVE NotIdleLength(_)
NotIdleLength(sched) ==
    IF sched = <<>> THEN 0
    ELSE (IF Head(sched).pid = None THEN 0 ELSE Head(sched).end - Head(sched).start)
         + NotIdleLength(Tail(sched))

C18_AggregateFormulas ==
    (pc = "aggregated" /\ schedule # <<>>) =>
        /\ \A m \in 1..MaxAggTime + 1 :
              IsMakespan(m) =>
                 /\ IsQuotient(aggregates.cpu_utilization, NotIdleLength(schedule), m)
                 /\ IsQuotient(aggregates.throughput, Len(stats), m)
        /\ stats # <<>> =>
              /\ \E i \in 1..Len(stats) : aggregates.min_waiting = <<stats[i].waiting_time, 1>>
              /\ \A i \in 1..Len(stats) : aggregates.min_waiting[1] <= stats[i].waiting_time
              /\ \E i \in 1..Len(stats) : aggregates.max_waiting = <<stats[i].waiting_time, 1>>
              /\ \A i \in 1..Len(stats) : aggregates.max_waiting[1] >= stats[i].waiting_time

\* The CPU was busy half of the makespan, the greatest end is not that of
\* the last entry, and the two rows differ in waiting_time.
C18_Witness ==
    /\ pc = "aggregated"
    /\ Len(schedule) = 2 /\ schedule[1].end > schedule[2].end
    /\ \E i \in 1..2 : schedule[i].pid = None /\ schedule[i].end > schedule[i].start
    /\ aggregates.cpu_utilization = <<1, 2>>
    /\ aggregates.throughput = <<1, 1>>
    /\ aggregates.min_waiting # aggregates.max_waiting

(***************************************************************************)
(* run_comparison: the quantum field is read and parsed, the old rows of   *)
(* the comparison table are cleared, and every algorithm of                *)
(* _algorithm_display_to_key is run on the process table in turn; each run *)
(* that returns adds a row of formatted aggregates.  A text is a sequence  *)
(* of character codes.                                                     *)
(***************************************************************************)
\* self._algorithm_display_to_key, in the order of its items().
AlgorithmDisplayToKey ==
    << <<"First-Come, First-Served (FCFS)", "FCFS">>,
       <<"Shortest Job First (SJF, non-preemptive)", "SJF">>,
       <<"Shortest Remaining Time First (SJF, preemptive)", "SJF_PREEMPTIVE">>,
       <<"Priority Scheduling (non-preemptive)", "PRIORITY">>,
       <<"Priority Scheduling (preemptive)", "PRIORITY_PREEMPTIVE">>,
       <<"Round Robin (RR)", "RR">> >>

\* str.strip(): the white space at both ends is removed.
IsSpace(c) == c \in {9, 10, 11, 12, 13, 32}

RECURSIVE LStrip(_)
LStrip(text) == IF text # <<>> /\ IsSpace(Head(text)) THEN LStrip(Tail(text)) ELSE text

RECURSIVE RStrip(_)
RStrip(text) == IF text # <<>> /\ IsSpace(Last(text)) THEN RStrip(Front(text)) ELSE text

Strip(text) == RStrip(LStrip(text))

\* int(text) on a stripped text: an optional sign, then one decimal digit or
\* more.  (The texts of the model hold no underscore.)
IsDigit(c) == c \in 48..57

Unsigned(text) == IF text # <<>> /\ Head(text) \in {43, 45} THEN Tail(text) ELSE text

\* int(text) raises ValueError.
IntRaises(text) ==
    \/ Unsigned(text) = <<>>
    \/ \E i \in 1..Len(Unsigned(text)) : ~IsDigit(Unsigned(text)[i])

RECURSIVE DigitsValue(_)
DigitsValue(ds) == IF ds = <<>> THEN 0 ELSE 10 * DigitsValue(Front(ds)) + (Last(ds) - 48)

\* The value of int(text) when it does not raise.
ParseInt(text) ==
    IF Head(text) = 45 THEN 0 - DigitsValue(Unsigned(text)) ELSE DigitsValue(Unsigned(text))

\* f"{a / b:.2f}" and the like: the decimal text of the float a / b with
\* (scale = 10 ** d) d digits after the point, as its number of units in the
\* last place; a tie goes to the even neighbour (the ties within the bounds
\* are exact floats).
RoundHalfEven(a, b) ==
    LET q == a \div b
        r == a % b
    IN IF 2 * r < b THEN q
       ELSE IF 2 * r > b THEN q + 1
       ELSE IF q % 2 = 0 THEN q ELSE q + 1

Format(x, scale) == RoundHalfEven(x[1] * scale, x[2])

\* The values of a row of the comparison table.
ComparisonRow(label, key, agg) ==
    [label |-> label, key |-> key,
     avg_waiting |-> Format(agg.avg_waiting, 100),
     avg_turnaround |-> Format(agg.avg_turnaround, 100),
     cpu_utilization |-> Format(agg.cpu_utilization, 10000),
     throughput |-> Format(agg.throughput, 1000)]

\* The texts of the quantum field: the decimal text of an integer, a text
\* with blanks around it, one with a plus sign; nothing or blanks only;
\* "abc", "1.5" and "-".
IntText(k) ==
    (IF k < 0 THEN <<45>> ELSE <<>>)
        \o [i \in 1..Len(Digits(Abs(k))) |-> 48 + Digits(Abs(k))[i]]

PositiveTexts ==
    {IntText(k) : k \in 1..MaxQuantum}
        \cup {<<32>> \o IntText(MaxQuantum) \o <<32>>, <<43>> \o IntText(1)}

NonPositiveTexts == {IntText(0), IntText(0 - 1)}

BlankTexts == {<<>>, <<32, 32>>}

UnparsableTexts == {<<97, 98, 99>>, <<49, 46, 53>>, <<45>>}

QuantumTexts == PositiveTexts \cup NonPositiveTexts \cup BlankTexts \cup UnparsableTexts

\* The burst times of a compared table: each > 0, MaxCompareBurst in all.
CompareBurstColumns(len) ==
    {bs \in [1..len -> 1..MaxCompareBurst] : Sum(bs) <= MaxCompareBurst}

\* The row an earlier comparison left in the table: FCFS on [P1 (0, 1)].
StaleRows ==
    <<[label |-> AlgorithmDisplayToKey[1][1], key |-> "FCFS", avg_waiting |-> 0,
       avg_turnaround |-> 100, cpu_utilization |-> 10000, throughput |-> 1000]>>

\* The button "Compare" was pressed: a table of processes, a text in the
\* quantum field, and the comparison table empty or holding the rows of an
\* earlier comparison.
InitCompare ==
    /\ \E len \in 0..MaxCompareProcs :
         \E ar \in [1..len -> 0..MaxArrival], bs \in CompareBurstColumns(len),
            pr \in [1..len -> 0..MaxPriority] :
                processes = Table(len, ar, bs, pr)
    /\ quantum_text \in QuantumTexts
    /\ comparison \in {<<>>, StaleRows}
    /\ key_i = 0 /\ aggregates = NoAggregates /\ dialog = NoDialog /\ results = <<>>
    /\ next_pid = 1 /\ message = ""
    /\ pc = "compare"
    /\ algorithm = "" /\ callee = NoFunction /\ quantum = <<>>
    /\ procs = <<>> /\ loop_i = 0 /\ completed = 0 /\ current_time = 0
    /\ schedule = <<>> /\ completion_times = EmptyDict /\ ready_queue = <<>>
    /\ next_index = 0 /\ remaining = EmptyDict /\ stats = <<>>

\* run_comparison up to the first call of _run_algorithm: the two early
\* returns behind an error dialog, else the quantum and the cleared table.
RunComparison ==
    /\ pc = "compare"
    /\ \E text \in {Strip(quantum_text)} :
         IF processes = <<>>
         THEN /\ dialog' = "No processes"
              /\ message' = "Please add at least one process before running the comparison."
              /\ pc' = "done"
              /\ UNCHANGED <<quantum, comparison, key_i, algorithm>>
         ELSE IF text # <<>> /\ IntRaises(text)
         THEN /\ dialog' = "Invalid quantum"
              /\ message' = "Time quantum must be a positive integer for Round Robin."
              /\ pc' = "done"
              /\ UNCHANGED <<quantum, comparison, key_i, algorithm>>
         ELSE /\ quantum' = IF text # <<>> THEN <<ParseInt(text)>> ELSE <<>>
              /\ comparison' = <<>>
              /\ key_i' = 1
              /\ algorithm' = AlgorithmDisplayToKey[1][2]
              /\ pc' = "call"
              /\ UNCHANGED <<dialog, message>>
    /\ UNCHANGED <<processes, callee, procs, loop_i, completed, current_time, schedule,
                   completion_times, ready_queue, next_index, remaining, stats,
                   quantum_text, next_pid, aggregates, results>>

\* A variant of the handler that raises again whatever the key.
CompareExceptReraises ==
    /\ pc = "ValueError" /\ key_i > 0
    /\ pc' = "raise"
    /\ UNCHANGED <<processes, algorithm, callee, quantum, procs, loop_i, completed,
                   current_time, schedule, completion_times, ready_queue, next_index,
                   remaining, stats, app>>

\* except ValueError: if key == "RR": continue; raise
CompareExcept ==
    /\ pc = "ValueError" /\ key_i > 0
    /\ IF algorithm = "RR"
       THEN /\ key_i' = key_i + 1
            /\ pc' = IF key_i < Len(AlgorithmDisplayToKey) THEN "call" ELSE "done"
            /\ algorithm' = IF key_i < Len(AlgorithmDisplayToKey)
                            THEN AlgorithmDisplayToKey[key_i + 1][2] ELSE algorithm
       ELSE /\ pc' = "raise"
            /\ UNCHANGED <<key_i, algorithm>>
    /\ UNCHANGED <<processes, callee, quantum, procs, loop_i, completed, current_time,
                   schedule, completion_times, ready_queue, next_index, remaining,
                   stats, quantum_text, next_pid, message, comparison, aggregates, dialog, results>>

\* _run_algorithm returned: the aggregates are computed, the row is inserted
\* and the loop goes on to the next key.
CompareRow ==
    /\ pc = "return" /\ key_i > 0
    /\ \E agg \in {ComputeAggregates(schedule, stats)} :
         IF AggregatesRaise(agg)
         THEN /\ pc' = ZeroDivisionError
              /\ UNCHANGED <<aggregates, comparison, key_i, algorithm>>
         ELSE /\ aggregates' = agg
              /\ comparison' = Append(comparison,
                                  ComparisonRow(AlgorithmDisplayToKey[key_i][1],
                                                algorithm, agg))
              /\ key_i' = key_i + 1
              /\ pc' = IF key_i < Len(AlgorithmDisplayToKey) THEN "call" ELSE "done"
              /\ algorithm' = IF key_i < Len(AlgorithmDisplayToKey)
                              THEN AlgorithmDisplayToKey[key_i + 1][2] ELSE algorithm
    /\ UNCHANGED <<processes, callee, quantum, procs, loop_i, completed, current_time,
                   schedule, completion_times, ready_queue, next_index, remaining,
                   stats, quantum_text, next_pid, message, dialog, results>>

NextCompare == RunComparison \/ RunAlgorithm \/ LoopStep \/ CompareRow \/ CompareExcept

SpecCompare == InitCompare /\ [][NextCompare]_vars

(***************************************************************************)
(* C19.  On a non-empty table run_comparison ends with six rows, those of  *)
(* FCFS, SJF, SJF_PREEMPTIVE, PRIORITY, PRIORITY_PREEMPTIVE and RR in this *)
(* order, when the quantum field holds a positive integer; when the field  *)
(* is blank or holds zero or a negative integer it ends with the first     *)
(* five rows, Round Robin left out, and no error is raised or shown.       *)
(***************************************************************************)
\* run_comparison is over: it returned, or an exception left it.
ComparisonEnded == pc \in {"done", "raise", "ZeroDivisionError"}

\* The keys of the rows of the comparison table, top to bottom.
RowKeys == [i \in 1..Len(comparison) |-> comparison[i].key]

FiveKeys == <<"FCFS", "SJF", "SJF_PREEMPTIVE", "PRIORITY", "PRIORITY_PREEMPTIVE">>

NoError == pc = "done" /\ dialog = ""

C19_ComparisonRows ==
    (ComparisonEnded /\ processes # <<>>) =>
        /\ quantum_text \in PositiveTexts =>
              NoError /\ RowKeys = Append(FiveKeys, "RR")
        /\ quantum_text \in BlankTexts \cup NonPositiveTexts =>
              NoError /\ RowKeys = FiveKeys

\* The comparison of a table of two processes with "-1" in the quantum field
\* is over: the row of an earlier comparison is gone, five rows are there.
C19_Witness ==
    /\ pc = "done"
    /\ Len(processes) = 2
    /\ quantum_text = <<45, 49>>
    /\ quantum = <<0 - 1>>
    /\ Len(comparison) = 5
    /\ comparison[1] # StaleRows[1]

(***************************************************************************)
(* C20.  When the text of the quantum field is not an integer at all, the  *)
(* comparison is not aborted: on a non-empty table run_comparison ends     *)
(* with the rows of the five algorithms that need no quantum, and only the *)
(* Round Robin row is left out.                                            *)
(***************************************************************************)
C20_UnparsableQuantum ==
    (ComparisonEnded /\ processes # <<>> /\ quantum_text \in UnparsableTexts) =>
        NoError /\ RowKeys = FiveKeys

(***************************************************************************)
(* The window calls _run_algorithm again and again on the table it holds   *)
(* (run_simulation at every press of "Run", run_comparison for every key). *)
(* Three calls in a row on one table: a call, a call of any algorithm, and *)
(* the first call once more.  What a call returned is kept in results.     *)
(***************************************************************************)
\* The quanta a call is made with: only round_robin_scheduling receives one.
QuantaOf(alg) == IF alg = "RR" THEN {<<>>} \cup {<<q>> : q \in 0..MaxQuantum} ELSE {<<>>}

AgainBurstColumns(len) ==
    {bs \in [1..len -> 1..MaxAgainBurst] : Sum(bs) <= MaxAgainBurst}

InitAgain ==
    /\ \E alg \in AlgorithmKeys, len \in 0..MaxAgainProcs :
         \E q \in QuantaOf(alg),
            ar \in [1..len -> 0..MaxArrival],
            bs \in AgainBurstColumns(len),
            pr \in [1..len -> Priorities(alg)] :
                /\ processes = Table(len, ar, bs, pr)
                /\ algorithm = alg
                /\ quantum = q
    /\ quantum_text = <<>> /\ AppIdle
    /\ callee = NoFunction
    /\ pc = "call"
    /\ procs = <<>> /\ loop_i = 0 /\ completed = 0 /\ current_time = 0
    /\ schedule = <<>> /\ completion_times = EmptyDict /\ ready_queue = <<>>
    /\ next_index = 0 /\ remaining = EmptyDict /\ stats = <<>>

\* What the call that just ended gave: the pair it returned, or the error.
Result ==
    [algorithm |-> algorithm, quantum |-> quantum, processes |-> processes,
     raised |-> pc = "ValueError", schedule |-> schedule, stats |-> stats]

\* The call ended and the window calls again: any algorithm after the first
\* call, the first call's algorithm and quantum after the second.  The
\* locals of the function that ended are garbage by now; the model leaves
\* them as they are.
CallAgain ==
    /\ pc \in {"return", "ValueError"} /\ key_i = 0
    /\ Len(results) < 2
    /\ results' = Append(results, Result)
    /\ IF results = <<>>
       THEN \E alg \in AlgorithmKeys : \E q \in QuantaOf(alg) :
                algorithm' = alg /\ quantum' = q
       ELSE algorithm' = results[1].algorithm /\ quantum' = results[1].quantum
    /\ pc' = "call"
    /\ UNCHANGED <<processes, callee, procs, loop_i, completed, current_time, schedule,
                   completion_times, ready_queue, next_index, remaining, stats,
                   quantum_text, next_pid, message, key_i, comparison, aggregates, dialog>>

\* The third call ended.
CallsEnd ==
    /\ pc \in {"return", "ValueError"} /\ key_i = 0
    /\ Len(results) = 2
    /\ results' = Append(results, Result)
    /\ pc' = "idle"
    /\ UNCHANGED <<processes, algorithm, callee, quantum, procs, loop_i, completed,
                   current_time, schedule, completion_times, ready_queue, next_index,
                   remaining, stats, quantum_text, next_pid, message, key_i, comparison, aggregates, dialog>>

NextAgain == RunAlgorithm \/ LoopStep \/ CallAgain \/ CallsEnd

SpecAgain == InitAgain /\ [][NextAgain]_vars

(***************************************************************************)
(* C21.  Determinism: two calls of an algorithm on the same process list   *)
(* with the same quantum give equal schedules and equal stats (or both     *)
(* raise), whatever call was made in between: nothing of a call is carried *)
(* into a later one.                                                       *)
(***************************************************************************)
C21_Determinism ==
    \A i \in 1..Len(results) : \A j \in 1..Len(results) :
        (results[i].algorithm = results[j].algorithm
            /\ results[i].quantum = results[j].quantum) =>
                /\ results[i].raised = results[j].raised
                /\ results[i].schedule = results[j].schedule
                /\ results[i].stats = results[j].stats

\* SRTF ran on two processes, Round Robin ran in between, SRTF ran again.
C21_Witness ==
    /\ pc = "idle" /\ Len(results) = 3
    /\ Len(processes) = 2
    /\ results[1].algorithm = "SJF_PREEMPTIVE"
    /\ results[2].algorithm = "RR" /\ ~results[2].raised
    /\ results[3].algorithm = "SJF_PREEMPTIVE"
    /\ Len(results[3].schedule) >= 2 /\ Len(results[3].stats) = 2

(***************************************************************************)
(* C22.  An algorithm leaves its input alone: no step changes the order of *)
(* the caller's process list or a field of its Process records, the list   *)
(* the function works on holds the caller's records as they are, and the   *)
(* remaining times live in a map of the run, set to the burst times when   *)
(* the run starts.                                                         *)
(***************************************************************************)
\* A run of a function that tracks remaining times starts in this step.
RemainingRunStarts ==
    /\ pc = "call" /\ pc' = "loop"
    /\ callee' \in {"sjf_preemptive_scheduling", "priority_preemptive_scheduling",
                    "round_robin_scheduling"}

C22_InputUnchanged ==
    /\ [][/\ processes' = processes
          /\ RemainingRunStarts =>
                /\ DOMAIN remaining' = PidsOf(processes)
                /\ \A i \in 1..Len(processes) :
                      remaining'[processes[i].pid] = processes[i].burst_time]_vars
    /\ [](\A i \in 1..Len(procs) : \E j \in 1..Len(processes) : procs[i] = processes[j])

\* Round Robin starts on the table on which SRTF ran to its end before: the
\* map of SRTF held 0 for every process, the new map holds the burst times.
C22_Witness ==
    /\ Len(results) = 1 /\ results[1].algorithm = "SJF_PREEMPTIVE"
    /\ Len(results[1].schedule) >= 2
    /\ algorithm = "RR" /\ pc = "loop" /\ schedule = <<>>
    /\ Len(processes) = 2
    /\ \A i \in 1..2 : remaining[processes[i].pid] = processes[i].burst_time

(***************************************************************************)
(* _on_scenario_selected: the table is cleared (the next pid is 1 again)   *)
(* and the rows (arrival, burst, priority) of the chosen scenario are      *)
(* added as P1, P2, ...; then an algorithm is run on the table.            *)
(***************************************************************************)
ScenarioLabels ==
    {"Simple FCFS demo", "Starvation example (Priority)",
     "Preemptive vs Non-preemptive SJF"}

Scenarios(label) ==
    CASE label = "Simple FCFS demo" ->
            << <<0, 5, 2>>, <<2, 3, 1>>, <<4, 1, 3>>, <<6, 7, 2>> >>
      [] label = "Starvation example (Priority)" ->
            << <<0, 20, 5>>, <<2, 3, 1>>, <<4, 4, 1>>, <<6, 2, 1>>, <<8, 1, 1>> >>
      [] label = "Preemptive vs Non-preemptive SJF" ->
            << <<0, 8, 1>>, <<1, 4, 1>>, <<2, 2, 1>>, <<3, 1, 1>> >>

\* The table after the loop "for arrival, burst, priority in processes".
ScenarioTable(label) ==
    [i \in 1..Len(Scenarios(label)) |->
        Process(i, Scenarios(label)[i][1], Scenarios(label)[i][2], Scenarios(label)[i][3])]

InitScenario ==
    /\ \E label \in ScenarioLabels, alg \in AlgorithmKeys :
         \E q \in (IF alg = "RR" THEN {<<k>> : k \in 1..MaxQuantum} ELSE {<<>>}) :
            /\ processes = ScenarioTable(label)
            /\ algorithm = alg
            /\ quantum = q
    /\ quantum_text = <<>> /\ AppIdle
    /\ callee = NoFunction
    /\ pc = "call"
    /\ procs = <<>> /\ loop_i = 0 /\ completed = 0 /\ current_time = 0
    /\ schedule = <<>> /\ completion_times = EmptyDict /\ ready_queue = <<>>
    /\ next_index = 0 /\ remaining = EmptyDict /\ stats = <<>>

\* In every scenario a process is ready whenever the CPU is free (the first
\* arrives at 0 and each next one before the bursts so far are over), so the
\* idle branches of the loops are never taken.
NextScenario ==
    \/ RunAlgorithm
    \/ FcfsStep \/ FcfsFinish
    \/ SjfDispatch \/ SjfFinish
    \/ SrtfRun \/ SrtfFinish
    \/ PriorityDispatch \/ PriorityFinish
    \/ PriorityPreemptiveRun \/ PriorityPreemptiveFinish
    \/ RRStep \/ RRFinish

SpecScenario == InitScenario /\ [][NextScenario]_vars

(***************************************************************************)
(* The two process sets the scenario properties name, with the pids the    *)
(* window gives them.                                                      *)
(***************************************************************************)
DemoSet ==
    <<Process(1, 0, 8, 1), Process(2, 1, 4, 1), Process(3, 2, 2, 1), Process(4, 3, 1, 1)>>

StarvationSet ==
    <<Process(1, 0, 20, 5), Process(2, 2, 3, 1), Process(3, 4, 4, 1),
      Process(4, 6, 2, 1), Process(5, 8, 1, 1)>>

\* The run of algorithm alg on the process set ps.
RunOf(alg, ps) == algorithm = alg /\ processes = ps

(***************************************************************************)
(* C23.  On the demo set SRTF starts P1 first, at time 0, and P1 has the   *)
(* strictly largest completion_time of the four processes.                 *)
(***************************************************************************)
C23_SrtfDemo ==
    RunOf("SJF_PREEMPTIVE", DemoSet) =>
        /\ schedule # <<>> => schedule[1].pid = 1 /\ schedule[1].start = 0
        /\ pc = "return" =>
              \A pid \in 2..4 : RowOf(1).completion_time > RowOf(pid).completion_time

C23_Witness ==
    /\ RunOf("SJF_PREEMPTIVE", DemoSet) /\ pc = "return"
    /\ schedule[1] = Entry(1, 0, 1)
    /\ Last(schedule) = Entry(1, 8, 15)
    /\ RowOf(1).completion_time = 15

(***************************************************************************)
(* C24.  On the demo set with quantum 2 Round Robin gives each of the four *)
(* processes a slice, and from time 3 on, when all four have arrived, no   *)
(* process waits more than 3 * quantum = 6 units between the end of one of *)
(* its slices and the start of its next one.                               *)
(***************************************************************************)
\* Entry j is the next slice after entry i of the same process.
IsNextSlice(i, j) ==
    /\ i < j /\ schedule[i].pid # None /\ schedule[j].pid = schedule[i].pid
    /\ \A k \in (i + 1)..(j - 1) : schedule[k].pid # schedule[i].pid

C24_RoundRobinDemo ==
    (RunOf("RR", DemoSet) /\ quantum = <<2>>) =>
        /\ pc = "return" => \A pid \in 1..4 : \E i \in 1..Len(schedule) : schedule[i].pid = pid
        /\ \A i \in 1..Len(schedule) : \A j \in 1..Len(schedule) :
              (IsNextSlice(i, j) /\ schedule[j].start >= 3) =>
                    schedule[j].start - schedule[i].end <= 6

\* P2 waits from 4 to 9 for its second slice.
C24_Witness ==
    /\ RunOf("RR", DemoSet) /\ quantum = <<2>> /\ pc = "return"
    /\ \E i \in 1..Len(schedule) : \E j \in 1..Len(schedule) :
          /\ IsNextSlice(i, j)
          /\ schedule[i] = Entry(2, 2, 4) /\ schedule[j] = Entry(2, 9, 11)

(***************************************************************************)
(* C25.  On the starvation scenario under preemptive priority P1, of       *)
(* priority 5, completes only after each of P2..P5, of priority 1, has     *)
(* completed.                                                              *)
(***************************************************************************)
C25_StarvationOrder ==
    RunOf("PRIORITY_PREEMPTIVE", StarvationSet) =>
        /\ 1 \in DOMAIN completion_times =>
              \A pid \in 2..5 : /\ pid \in DOMAIN completion_times
                                /\ completion_times[pid] < completion_times[1]
        /\ pc = "return" =>
              \A pid \in 2..5 : RowOf(pid).completion_time < RowOf(1).completion_time

C25_Witness ==
    /\ RunOf("PRIORITY_PREEMPTIVE", StarvationSet) /\ pc = "return"
    /\ RowOf(1).completion_time = 30
    /\ RowOf(5).completion_time = 12
    /\ schedule[1] = Entry(1, 0, 2)

(***************************************************************************)
(* C26.  On the starvation scenario under preemptive priority the          *)
(* waiting_time reported for P1 is 10, the burst times of P2..P5 in all:   *)
(* it is positive and less than the burst_time of P1 (20).                 *)
(***************************************************************************)
C26_StarvationWaiting ==
    (RunOf("PRIORITY_PREEMPTIVE", StarvationSet) /\ pc = "return") =>
        /\ RowOf(1).waiting_time = 10
        /\ RowOf(1).waiting_time = RowOf(2).burst_time + RowOf(3).burst_time
                                     + RowOf(4).burst_time + RowOf(5).burst_time
        /\ RowOf(1).waiting_time < RowOf(1).burst_time

\* The statement with the waiting_time strictly greater than the burst_time.
C26_Original ==
    (RunOf("PRIORITY_PREEMPTIVE", StarvationSet) /\ pc = "return") =>
        RowOf(1).waiting_time > RowOf(1).burst_time

C26_Witness ==
    /\ RunOf("PRIORITY_PREEMPTIVE", StarvationSet) /\ pc = "return"
    /\ RowOf(1).burst_time = 20
    /\ RowOf(1).turnaround_time = 30
    /\ RowOf(1).waiting_time = 10

(***************************************************************************)
(* C27.  No algorithm emits an entry of length zero or less: on every      *)
(* valid table every entry of the schedule, the idle ones included, has    *)
(* end > start, at every step of the run and in the schedule returned.     *)
(***************************************************************************)
C27_PositiveLength ==
    \A i \in 1..Len(schedule) : schedule[i].end > schedule[i].start

\* Round Robin returned a schedule that starts with an idle entry.
C27_Witness ==
    /\ Returned /\ algorithm = "RR"
    /\ schedule[1].pid = None /\ schedule[1].end > schedule[1].start
    /\ Len(schedule) >= 3

(***************************************************************************)
(* C28.  In SRTF and preemptive Priority the unit steps are merged into    *)
(* maximal stretches: a unit of the process that ran the unit before       *)
(* extends its entry and any other unit starts a new entry, so an entry    *)
(* (p, s, e) covers units in which p was selected, and the entries next to *)
(* it have another pid or are idle.                                        *)
(***************************************************************************)
UnitStepped == algorithm \in {"SJF_PREEMPTIVE", "PRIORITY_PREEMPTIVE"}

\* The process selected in this step ran the unit before as well.
Continues ==
    /\ schedule # <<>>
    /\ Last(schedule).pid = Last(schedule').pid
    /\ Last(schedule).end = current_time

C28_MaximalStretches ==
    /\ [][(UnitStepped /\ pc = "loop" /\ Dispatches) =>
            /\ Last(schedule').end = current_time + 1
            /\ IF Continues
               THEN /\ Len(schedule') = Len(schedule)
                    /\ Front(schedule') = Front(schedule)
                    /\ Last(schedule').start = Last(schedule).start
               ELSE /\ Front(schedule') = schedule
                    /\ Last(schedule').start = current_time]_vars
    /\ [](UnitStepped =>
            \A i \in 1..(Len(schedule) - 1) : schedule[i].pid # schedule[i + 1].pid)

\* SRTF returned: a process ran a unit, was preempted, and ran a stretch of
\* two units or more later on.
C28_Witness ==
    /\ Returned /\ algorithm = "SJF_PREEMPTIVE"
    /\ \E i \in 1..Len(schedule) : \E j \in 1..Len(schedule) :
          /\ i + 1 < j
          /\ schedule[i].pid # None /\ schedule[i].pid = schedule[j].pid
          /\ schedule[j].end - schedule[j].start >= 2

(***************************************************************************)
(* C29.  In Round Robin every dispatch emits one entry, of length          *)
(* min(quantum, remaining time of the process dispatched); so a process of *)
(* burst b has ceil(b / quantum) entries, each of length quantum but for   *)
(* the last one, which has what is left.                                   *)
(***************************************************************************)
Ceil(a, b) == (a + b - 1) \div b

\* The entries of the schedule after position k.
EntriesAfter(sched, k) == SubSeq(sched, k + 1, Len(sched))

C29_RoundRobinSlices ==
    /\ [][(algorithm = "RR" /\ pc = "loop" /\ schedule' # schedule) =>
            LET new == EntriesAfter(schedule', Len(schedule))
                slice == Last(schedule')
            IN /\ SubSeq(schedule', 1, Len(schedule)) = schedule
               /\ Len(new) \in {1, 2}
               /\ Len(new) = 2 => new[1].pid = None
               /\ slice.pid # None
               /\ slice.end - slice.start =
                     IF quantum[1] < remaining[slice.pid] THEN quantum[1]
                     ELSE remaining[slice.pid]]_vars
    /\ []((Returned /\ algorithm = "RR") =>
            \A k \in 1..Len(processes) :
                LET p == processes[k]
                    mine == EntriesOf(schedule, p.pid)
                    count == Ceil(p.burst_time, quantum[1])
                IN /\ Cardinality(mine) = count
                   /\ \A i \in mine :
                        schedule[i].end - schedule[i].start =
                            IF \E j \in mine : j > i THEN quantum[1]
                            ELSE p.burst_time - (count - 1) * quantum[1])

\* A process of burst 3 ran with quantum 2: two entries, of length 2 and 1.
C29_Witness ==
    /\ Returned /\ algorithm = "RR" /\ quantum = <<2>>
    /\ \E k \in 1..Len(processes) :
          /\ processes[k].burst_time = 3
          /\ Cardinality(EntriesOf(schedule, processes[k].pid)) = 2
    /\ Len(processes) >= 2

(***************************************************************************)
(* C30.  In FCFS, SJF and Priority a process is not interrupted once it is *)
(* dispatched: it has one entry, of length burst_time, that ends at its    *)
(* completion time, and no entry of another process lies between the start *)
(* and the end of it.                                                      *)
(***************************************************************************)
NonPreemptive == algorithm \in {"FCFS", "SJF", "PRIORITY"}

C30_NeverInterrupted ==
    NonPreemptive =>
        /\ \A i \in 1..Len(schedule) :
              schedule[i].pid # None =>
                 /\ schedule[i].end - schedule[i].start = ProcOf(schedule[i].pid).burst_time
                 /\ completion_times[schedule[i].pid] = schedule[i].end
                 /\ \A j \in 1..Len(schedule) :
                       j # i => /\ schedule[j].pid # schedule[i].pid
                                /\ \/ schedule[j].end <= schedule[i].start
                                   \/ schedule[j].start >= schedule[i].end
        /\ Returned =>
              \A k \in 1..Len(processes) :
                  Cardinality(EntriesOf(schedule, processes[k].pid)) = 1

\* SJF returned: a longer process that was dispatched first ran to its end
\* while a shorter one was waiting.
C30_Witness ==
    /\ Returned /\ algorithm = "SJF"
    /\ \E i \in 1..Len(schedule) : \E j \in 1..Len(schedule) :
          /\ i < j /\ schedule[i].pid # None /\ schedule[j].pid # None
          /\ ProcOf(schedule[i].pid).burst_time > ProcOf(schedule[j].pid).burst_time
          /\ ProcOf(schedule[j].pid).arrival_time < schedule[i].end
          /\ ProcOf(schedule[j].pid).arrival_time > schedule[i].start

(***************************************************************************)
(* One call on a table whose processes arrive far apart: the CPU can run   *)
(* out of work in the middle of a run, not only before the first arrival.  *)
(***************************************************************************)
GapBurstColumns(len) ==
    {bs \in [1..len -> 1..MaxGapBurst] : Sum(bs) <= MaxGapBurst}

InitGaps ==
    /\ \E alg \in AlgorithmKeys, len \in 1..MaxGapProcs :
         \E q \in (IF alg = "RR" THEN {<<k>> : k \in 1..MaxQuantum} ELSE {<<>>}),
            ar \in [1..len -> 0..MaxGapArrival],
            bs \in GapBurstColumns(len),
            pr \in [1..len -> Priorities(alg)] :
                /\ processes = Table(len, ar, bs, pr)
                /\ algorithm = alg
                /\ quantum = q
    /\ quantum_text = <<>> /\ AppIdle
    /\ callee = NoFunction
    /\ pc = "call"
    /\ procs = <<>> /\ loop_i = 0 /\ completed = 0 /\ current_time = 0
    /\ schedule = <<>> /\ completion_times = EmptyDict /\ ready_queue = <<>>
    /\ next_index = 0 /\ remaining = EmptyDict /\ stats = <<>>

SpecGaps == InitGaps /\ [][Next]_vars

(***************************************************************************)
(* C31.  The six algorithms are work-conserving: an idle entry [s, e) is   *)
(* in the schedule only if every process with arrival_time <= s completed  *)
(* by s, and e is the earliest arrival_time after s; the CPU is never idle *)
(* while a process that has arrived is unfinished.                         *)
(***************************************************************************)
\* Process p completed by time t.
CompletedBy(p, t) == p.pid \in DOMAIN completion_times /\ completion_times[p.pid] <= t

C31_WorkConserving ==
    \A i \in 1..Len(schedule) :
        schedule[i].pid = None =>
            /\ \A k \in 1..Len(processes) :
                  processes[k].arrival_time <= schedule[i].start =>
                        CompletedBy(processes[k], schedule[i].start)
            /\ \E k \in 1..Len(processes) : processes[k].arrival_time = schedule[i].end
            /\ \A k \in 1..Len(processes) :
                  processes[k].arrival_time > schedule[i].start =>
                        processes[k].arrival_time >= schedule[i].end

\* Preemptive Priority returned: the first process completed, the CPU was
\* idle for two units or more, and the second process ran.
C31_Witness ==
    /\ Returned /\ algorithm = "PRIORITY_PREEMPTIVE"
    /\ Len(schedule) = 3
    /\ schedule[1].pid # None
    /\ schedule[2].pid = None /\ schedule[2].end - schedule[2].start >= 2
    /\ schedule[3].pid # None

(***************************************************************************)
(* C32.  SRTF and preemptive Priority: the running process changes only at *)
(* event instants.  If the step taken at time t puts in the schedule       *)
(* another occupant than the one of [t-1, t), then the process that ran in *)
(* [t-1, t) completed at t, or some process has arrival_time = t.          *)
(***************************************************************************)
\* The step taken at current_time changes who holds the CPU.
ChangesOccupant ==
    /\ schedule # <<>>
    /\ schedule' # schedule
    /\ Last(schedule).end = current_time
    /\ Last(schedule').pid # Last(schedule).pid

ArrivalAt(t) == \E k \in 1..Len(processes) : processes[k].arrival_time = t

C32_ChangesAtEvents ==
    [][(UnitStepped /\ ChangesOccupant) =>
          \/ /\ Last(schedule).pid # None
             /\ Last(schedule).pid \in DOMAIN completion_times
             /\ completion_times[Last(schedule).pid] = current_time
          \/ ArrivalAt(current_time)]_vars

\* A returned unit-stepped schedule in which a process was preempted at an
\* arrival and resumed after the preempting process completed.
C32_Witness ==
    /\ Returned /\ UnitStepped
    /\ Len(schedule) >= 3
    /\ schedule[1].pid # None /\ schedule[1].pid = schedule[3].pid
    /\ ArrivalAt(schedule[1].end)
    /\ RowOf(schedule[2].pid).completion_time = schedule[2].end

(***************************************************************************)
(* C36.  Bounded waiting in Round Robin: for n valid processes and a       *)
(* quantum > 0, between the end of a slice of a process and the start of   *)
(* its next slice at most (n - 1) * quantum time units pass, and no idle   *)
(* entry lies in between.                                                  *)
(***************************************************************************)
\* Entry j is the first entry after entry i of the same process.
NextOfSame(i, j) ==
    /\ i < j
    /\ schedule[i].pid # None
    /\ schedule[j].pid = schedule[i].pid
    /\ \A k \in (i + 1)..(j - 1) : schedule[k].pid # schedule[i].pid

C36_BoundedWaiting ==
    (algorithm = "RR" /\ quantum # <<>>) =>
        \A i \in 1..Len(schedule), j \in 1..Len(schedule) :
            NextOfSame(i, j) =>
                /\ schedule[j].start - schedule[i].end
                      <= (Len(processes) - 1) * quantum[1]
                /\ \A k \in (i + 1)..(j - 1) : schedule[k].pid # None

\* Three processes, quantum 1: a process waited the full (n - 1) * quantum
\* between two of its slices.
C36_Witness ==
    /\ Returned /\ algorithm = "RR" /\ quantum = <<1>>
    /\ Len(processes) = 3
    /\ \E i \in 1..Len(schedule), j \in 1..Len(schedule) :
          /\ NextOfSame(i, j)
          /\ schedule[j].start - schedule[i].end = 2

(***************************************************************************)
(* C39.  Every algorithm, every valid non-empty table: the busy time of    *)
(* the returned schedule (the total length of its entries that are not     *)
(* idle) is the sum of the burst times; the makespan lies between that sum *)
(* and max arrival_time + that sum; busy time = makespan exactly when the  *)
(* schedule has no idle entry.                                             *)
(***************************************************************************)
BurstSum == Sum([k \in 1..Len(processes) |-> processes[k].burst_time])

LatestArrival ==
    CHOOSE a \in {processes[k].arrival_time : k \in 1..Len(processes)} :
        \A k \in 1..Len(processes) : processes[k].arrival_time <= a

HasIdle == \E i \in 1..Len(schedule) : schedule[i].pid = None

C39_BusyAndMakespan ==
    Returned =>
        \E makespan \in 0..(LatestArrival + BurstSum) :
            /\ IsMakespan(makespan)
            /\ NotIdleLength(schedule) = BurstSum
            /\ BurstSum <= makespan
            /\ (NotIdleLength(schedule) = makespan) <=> ~HasIdle

\* A returned schedule in which the CPU idled in the middle of the run: its
\* makespan lies strictly between the two bounds.
C39_Witness ==
    /\ Returned
    /\ Len(schedule) = 3
    /\ schedule[2].pid = None
    /\ \E makespan \in (BurstSum + 1)..(LatestArrival + BurstSum - 1) :
          IsMakespan(makespan)

(***************************************************************************)
(* The three functions with a defensive exit, called on any list of        *)
(* processes of positive burst time: the pids of the list may repeat.  The *)
(* "break" of the two unit-stepped functions and the "continue" of         *)
(* round_robin_scheduling are steps of this specification.                 *)
(***************************************************************************)
DefensiveKeys == {"SJF_PREEMPTIVE", "PRIORITY_PREEMPTIVE", "RR"}

DefensiveBurstColumns(len) ==
    {bs \in [1..len -> 1..MaxDefensiveBurst] : Sum(bs) <= MaxDefensiveBurst}

InitDefensive ==
    /\ \E alg \in DefensiveKeys, len \in 1..MaxDefensiveProcs :
         \E q \in (IF alg = "RR" THEN {<<k>> : k \in 1..MaxQuantum} ELSE {<<>>}),
            ids \in [1..len -> 1..len],
            ar \in [1..len -> 0..MaxArrival],
            bs \in DefensiveBurstColumns(len),
            pr \in [1..len -> Priorities(alg)] :
                /\ processes = [i \in 1..len |-> Process(ids[i], ar[i], bs[i], pr[i])]
                /\ algorithm = alg
                /\ quantum = q
    /\ quantum_text = <<>> /\ AppIdle
    /\ callee = NoFunction
    /\ pc = "call"
    /\ procs = <<>> /\ loop_i = 0 /\ completed = 0 /\ current_time = 0
    /\ schedule = <<>> /\ completion_times = EmptyDict /\ ready_queue = <<>>
    /\ next_index = 0 /\ remaining = EmptyDict /\ stats = <<>>

\* With repeated pids a remaining time can pass below 0 and the loop never
\* ends: the iterations are followed up to the clock MaxDefensiveClock.
ClockInRange == current_time < MaxDefensiveClock

NextDefensive ==
    \/ RunAlgorithm
    \/ ClockInRange /\ SrtfIdle
    \/ ClockInRange /\ SrtfRun
    \/ ClockInRange /\ SrtfBreak
    \/ ClockInRange /\ SrtfFinish
    \/ ClockInRange /\ PriorityPreemptiveIdle
    \/ ClockInRange /\ PriorityPreemptiveRun
    \/ ClockInRange /\ PriorityPreemptiveBreak
    \/ ClockInRange /\ PriorityPreemptiveFinish
    \/ ClockInRange /\ RRStep
    \/ ClockInRange /\ RRContinue
    \/ ClockInRange /\ RRFinish

SpecDefensive == InitDefensive /\ [][NextDefensive]_vars

(***************************************************************************)
(* C40.  On a list of unique pids and positive burst times the defensive   *)
(* exits are unreachable: the "break" of SRTF and of preemptive Priority   *)
(* and the "continue" of Round Robin are never executed; whenever the      *)
(* ready queue is empty and no arrival is pending, every process has       *)
(* completed.                                                              *)
(***************************************************************************)
UniquePids ==
    \A i \in 1..Len(processes), j \in 1..Len(processes) :
        processes[i].pid = processes[j].pid => i = j

\* Between two iterations: nothing is ready and nothing is left to arrive.
NothingLeft == pc = "loop" /\ ready_queue = <<>> /\ next_index >= n

AllCompleted ==
    \A k \in 1..Len(processes) : processes[k].pid \in DOMAIN completion_times

C40_DefensiveExitsUnreachable ==
    UniquePids =>
        /\ ~ENABLED SrtfBreak
        /\ ~ENABLED PriorityPreemptiveBreak
        /\ ~ENABLED RRContinue
        /\ NothingLeft => AllCompleted /\ Cardinality(DOMAIN completion_times) = n

\* Unique pids: the last iteration left the ready queue empty with nothing
\* to arrive, and the loop condition is about to end the loop.
C40_Witness ==
    /\ UniquePids /\ Len(processes) = 2
    /\ algorithm \in DefensiveKeys
    /\ NothingLeft
    /\ schedule # <<>>

(***************************************************************************)
(* Two calls in a row on a valid, non-empty process table: the second call *)
(* runs another algorithm on the same list, or the same algorithm on the   *)
(* same processes listed in another order.  The result of the first call   *)
(* is kept in results.                                                     *)
(***************************************************************************)
PairBurstColumns(len) ==
    {bs \in [1..len -> 1..MaxPairBurst] : Sum(bs) <= MaxPairBurst}

PairQuantaOf(alg) == IF alg = "RR" THEN {<<q>> : q \in 1..MaxPairBurst} ELSE {<<>>}

InitPair ==
    /\ \E alg \in AlgorithmKeys, len \in 1..MaxPairProcs :
         \E q \in PairQuantaOf(alg),
            ar \in [1..len -> 0..MaxArrival],
            bs \in PairBurstColumns(len),
            pr \in [1..len -> Priorities(alg)] :
                /\ processes = Table(len, ar, bs, pr)
                /\ algorithm = alg
                /\ quantum = q
    /\ quantum_text = <<>> /\ AppIdle
    /\ callee = NoFunction
    /\ pc = "call"
    /\ procs = <<>> /\ loop_i = 0 /\ completed = 0 /\ current_time = 0
    /\ schedule = <<>> /\ completion_times = EmptyDict /\ ready_queue = <<>>
    /\ next_index = 0 /\ remaining = EmptyDict /\ stats = <<>>

\* The lists that hold the processes of ps in another order.
Reordered(ps) ==
    {[i \in 1..Len(ps) |-> ps[f[i]]] :
        f \in {g \in [1..Len(ps) -> 1..Len(ps)] :
                  \A i \in 1..Len(ps), j \in 1..Len(ps) : g[i] = g[j] => i = j}}
    \ {ps}

\* The first call returned: another algorithm is called on the same list.
CallOther ==
    /\ pc = "return" /\ key_i = 0
    /\ results = <<>>
    /\ results' = <<Result>>
    /\ \E alg \in AlgorithmKeys \ {algorithm} : \E q \in PairQuantaOf(alg) :
            algorithm' = alg /\ quantum' = q
    /\ pc' = "call"
    /\ UNCHANGED <<processes, callee, procs, loop_i, completed, current_time, schedule,
                   completion_times, ready_queue, next_index, remaining, stats,
                   quantum_text, next_pid, message, key_i, comparison, aggregates, dialog>>

\* The first call returned: the same algorithm is called on the reordered list.
CallReordered ==
    /\ pc = "return" /\ key_i = 0
    /\ results = <<>>
    /\ results' = <<Result>>
    /\ processes' \in Reordered(processes)
    /\ pc' = "call"
    /\ UNCHANGED <<algorithm, quantum, callee, procs, loop_i, completed, current_time,
                   schedule, completion_times, ready_queue, next_index, remaining,
                   stats, quantum_text, next_pid, message, key_i, comparison, aggregates, dialog>>

\* The second call returned.
PairEnd ==
    /\ pc = "return" /\ key_i = 0
    /\ Len(results) = 1
    /\ results' = Append(results, Result)
    /\ pc' = "idle"
    /\ UNCHANGED <<processes, algorithm, callee, quantum, procs, loop_i, completed,
                   current_time, schedule, completion_times, ready_queue, next_index,
                   remaining, stats, quantum_text, next_pid, message, key_i, comparison, aggregates, dialog>>

NextPair == RunAlgorithm \/ LoopStep \/ CallOther \/ CallReordered \/ PairEnd

SpecPair == InitPair /\ [][NextPair]_vars

(***************************************************************************)
(* C33.  When all processes have the same arrival_time, a preemptive       *)
(* variant gives the schedule and the stats of its non-preemptive          *)
(* counterpart: SRTF those of SJF, preemptive Priority those of Priority.  *)
(***************************************************************************)
SameArrival(ps) ==
    \A i \in 1..Len(ps), j \in 1..Len(ps) : ps[i].arrival_time = ps[j].arrival_time

\* Results i and j are the non-preemptive and the preemptive variant of one
\* criterion, run on the same list.
Counterparts(i, j) ==
    /\ results[i].processes = results[j].processes
    /\ \/ results[i].algorithm = "SJF" /\ results[j].algorithm = "SJF_PREEMPTIVE"
       \/ results[i].algorithm = "PRIORITY" /\ results[j].algorithm = "PRIORITY_PREEMPTIVE"

C33_PreemptionWithoutArrivals ==
    \A i \in 1..Len(results), j \in 1..Len(results) :
        (Counterparts(i, j) /\ SameArrival(results[i].processes)) =>
            /\ results[i].schedule = results[j].schedule
            /\ results[i].stats = results[j].stats

\* Priority, then preemptive Priority, ran on two processes that arrive
\* together with different priorities and different burst times.
C33_Witness ==
    /\ Len(results) = 2
    /\ Counterparts(1, 2) /\ results[1].algorithm = "PRIORITY"
    /\ SameArrival(processes) /\ Len(processes) = 2
    /\ processes[1].priority # processes[2].priority
    /\ processes[1].burst_time # processes[2].burst_time
    /\ results[2].schedule # <<>>

(***************************************************************************)
(* C34.  Round Robin with a quantum >= the largest burst_time degenerates  *)
(* to FCFS: on every valid table it gives the schedule entries of FCFS and *)
(* the completion_time of FCFS for every process.                          *)
(***************************************************************************)
LargestBurst(ps) ==
    CHOOSE b \in {ps[k].burst_time : k \in 1..Len(ps)} :
        \A k \in 1..Len(ps) : ps[k].burst_time <= b

CompletionsOf(rows) == {<<rows[k].pid, rows[k].completion_time>> : k \in 1..Len(rows)}

\* Result i is of FCFS, result j of Round Robin with a quantum that no burst
\* time exceeds, on the same list.
Degenerate(i, j) ==
    /\ results[i].processes = results[j].processes
    /\ results[i].algorithm = "FCFS"
    /\ results[j].algorithm = "RR"
    /\ results[j].quantum # <<>>
    /\ results[j].quantum[1] >= LargestBurst(results[j].processes)

C34_LargeQuantumIsFcfs ==
    \A i \in 1..Len(results), j \in 1..Len(results) :
        Degenerate(i, j) =>
            /\ results[i].schedule = results[j].schedule
            /\ CompletionsOf(results[i].stats) = CompletionsOf(results[j].stats)

\* FCFS, then Round Robin with quantum 2, ran on two processes of burst
\* times 1 and 2 of which the second arrives while the CPU is still idle.
C34_Witness ==
    /\ Len(results) = 2
    /\ Degenerate(1, 2) /\ results[2].quantum = <<2>>
    /\ Len(processes) = 2
    /\ LargestBurst(processes) = 2
    /\ results[2].schedule[1].pid = None
    /\ Len(results[2].schedule) = 3

(***************************************************************************)
(* C35.  On a table of unique pids the result of each of the six           *)
(* algorithms does not depend on the order of the input list: every        *)
(* permutation of the same processes gives the same schedule and the same  *)
(* stats.                                                                  *)
(***************************************************************************)
UniquePidsIn(ps) ==
    \A i \in 1..Len(ps), j \in 1..Len(ps) : ps[i].pid = ps[j].pid => i = j

\* ps and qs hold the same processes, each once.
PermutationOf(ps, qs) ==
    /\ Len(ps) = Len(qs)
    /\ {ps[k] : k \in 1..Len(ps)} = {qs[k] : k \in 1..Len(qs)}

C35_OrderIndependent ==
    \A i \in 1..Len(results), j \in 1..Len(results) :
        (/\ results[i].algorithm = results[j].algorithm
         /\ results[i].quantum = results[j].quantum
         /\ UniquePidsIn(results[i].processes)
         /\ PermutationOf(results[i].processes, results[j].processes)) =>
            /\ results[i].schedule = results[j].schedule
            /\ results[i].stats = results[j].stats

\* One algorithm ran on two processes that tie on arrival_time and on burst
\* time, then on the same two processes in the other order.
C35_Witness ==
    /\ Len(results) = 2
    /\ results[1].algorithm = results[2].algorithm
    /\ results[1].processes # results[2].processes
    /\ PermutationOf(results[1].processes, results[2].processes)
    /\ Len(processes) = 2
    /\ SameArrival(processes)
    /\ processes[1].burst_time = processes[2].burst_time
    /\ Len(results[2].schedule) >= 2

(***************************************************************************)
(* C38.  On a table whose processes all arrive at the same time, the sum   *)
(* of the waiting times under non-preemptive SJF is less than or equal to  *)
(* the sum under FCFS, under non-preemptive Priority and under Round Robin *)
(* with any quantum > 0.                                                   *)
(***************************************************************************)
WaitingSum(rows) == Sum([k \in 1..Len(rows) |-> rows[k].waiting_time])

\* Result i is of SJF, result j of one of the three other algorithms, on the
\* same list.
SjfAgainst(i, j) ==
    /\ results[i].processes = results[j].processes
    /\ results[i].algorithm = "SJF"
    /\ \/ results[j].algorithm \in {"FCFS", "PRIORITY"}
       \/ /\ results[j].algorithm = "RR"
          /\ results[j].quantum # <<>>
          /\ results[j].quantum[1] > 0

C38_SjfLeastWaiting ==
    \A i \in 1..Len(results), j \in 1..Len(results) :
        (SjfAgainst(i, j) /\ SameArrival(results[i].processes)) =>
            WaitingSum(results[i].stats) <= WaitingSum(results[j].stats)

\* Priority, then SJF, ran on two processes that arrive together: Priority
\* ran the longer one first, and SJF gives a strictly smaller sum.
C38_Witness ==
    /\ Len(results) = 2
    /\ SjfAgainst(2, 1) /\ results[1].algorithm = "PRIORITY"
    /\ SameArrival(processes) /\ Len(processes) = 2
    /\ WaitingSum(results[2].stats) < WaitingSum(results[1].stats)

(***************************************************************************)
(* The process table of the window and the handlers that change it:        *)
(* add_process, remove_selected_process, clear_all and the scenario        *)
(* dropdown.  processes is what _get_processes_from_tree reads off the     *)
(* table.                                                                  *)
(***************************************************************************)
\* What the user may have typed into the three entries, as character codes.
ArrivalTexts == {IntText(0), <<32>> \o IntText(1) \o <<32>>, IntText(0 - 1), <<97>>}

BurstTexts == {IntText(2), IntText(0), <<>>}

PriorityTexts == {<<>>, IntText(1), <<120>>}

\* A value of a table row, read back: int(text of the value).
TreeValue(k) == ParseInt(IntText(k))

InitTable ==
    /\ processes = <<>>
    /\ quantum_text = <<50>> /\ AppIdle
    /\ pc = "idle"
    /\ algorithm = "" /\ callee = NoFunction /\ quantum = <<>>
    /\ procs = <<>> /\ loop_i = 0 /\ completed = 0 /\ current_time = 0
    /\ schedule = <<>> /\ completion_times = EmptyDict /\ ready_queue = <<>>
    /\ next_index = 0 /\ remaining = EmptyDict /\ stats = <<>>

\* A variant of add_process without the test "arrival < 0 or burst <= 0".
AddProcessOnUnchecked(arrival_entry, burst_entry, priority_entry) ==
    LET arrival_text == Strip(arrival_entry)
        burst_text == Strip(burst_entry)
        priority_text == Strip(priority_entry)
    IN IF IntRaises(arrival_text) \/ IntRaises(burst_text)
       THEN /\ dialog' = "Invalid input"
            /\ message' = "Arrival and burst times must be integers."
            /\ UNCHANGED <<processes, next_pid>>
       ELSE IF priority_text # <<>> /\ IntRaises(priority_text)
       THEN /\ dialog' = "Invalid input"
            /\ message' = "Priority must be an integer if specified."
            /\ UNCHANGED <<processes, next_pid>>
       ELSE /\ processes' =
                 Append(processes,
                        Process(next_pid,
                                TreeValue(ParseInt(arrival_text)),
                                TreeValue(ParseInt(burst_text)),
                                TreeValue(IF priority_text # <<>>
                                          THEN ParseInt(priority_text) ELSE 0)))
            /\ next_pid' = next_pid + 1
            /\ UNCHANGED <<dialog, message>>

\* add_process, with the three entries holding the given texts.
AddProcessOn(arrival_entry, burst_entry, priority_entry) ==
    LET arrival_text == Strip(arrival_entry)
        burst_text == Strip(burst_entry)
        priority_text == Strip(priority_entry)
    IN IF IntRaises(arrival_text) \/ IntRaises(burst_text)
       THEN /\ dialog' = "Invalid input"
            /\ message' = "Arrival and burst times must be integers."
            /\ UNCHANGED <<processes, next_pid>>
       ELSE IF ParseInt(arrival_text) < 0 \/ ParseInt(burst_text) <= 0
       THEN /\ dialog' = "Invalid input"
            /\ message' = "Arrival time must be >= 0 and burst time must be > 0."
            /\ UNCHANGED <<processes, next_pid>>
       ELSE IF priority_text # <<>> /\ IntRaises(priority_text)
       THEN /\ dialog' = "Invalid input"
            /\ message' = "Priority must be an integer if specified."
            /\ UNCHANGED <<processes, next_pid>>
       ELSE /\ processes' =
                 Append(processes,
                        Process(next_pid,
                                TreeValue(ParseInt(arrival_text)),
                                TreeValue(ParseInt(burst_text)),
                                TreeValue(IF priority_text # <<>>
                                          THEN ParseInt(priority_text) ELSE 0)))
            /\ next_pid' = next_pid + 1
            /\ UNCHANGED <<dialog, message>>

\* The user fills the entries and presses "Add Process".  The handler is
\* followed while the table holds fewer than MaxTableRows rows and the
\* counter is MaxTablePid at most.
AddProcess ==
    /\ pc = "idle"
    /\ Len(processes) < MaxTableRows /\ next_pid <= MaxTablePid
    /\ \E arrival_entry \in ArrivalTexts, burst_entry \in BurstTexts,
          priority_entry \in PriorityTexts :
            AddProcessOn(arrival_entry, burst_entry, priority_entry)
    /\ UNCHANGED <<algorithm, callee, quantum, pc, procs, loop_i, completed,
                   current_time, schedule, completion_times, ready_queue, next_index,
                   remaining, stats, quantum_text, key_i, comparison, aggregates,
                   results>>

\* The rows of ps from position i on that are not selected, in their order.
RECURSIVE RowsLeft(_, _, _)
RowsLeft(ps, i, selection) ==
    IF i > Len(ps) THEN <<>>
    ELSE (IF i \in selection THEN <<>> ELSE <<ps[i]>>) \o RowsLeft(ps, i + 1, selection)

\* remove_selected_process: the selected rows are deleted; the pid counter
\* is left alone.
RemoveSelectedProcess ==
    /\ pc = "idle"
    /\ \E selection \in SUBSET (1..Len(processes)) :
          processes' = RowsLeft(processes, 1, selection)
    /\ UNCHANGED <<algorithm, callee, quantum, pc, procs, loop_i, completed,
                   current_time, schedule, completion_times, ready_queue, next_index,
                   remaining, stats, app>>

\* clear_all: the tables, the labels and the chart are emptied and the pid
\* counter starts again at 1.
ClearAll ==
    /\ pc = "idle"
    /\ processes' = <<>>
    /\ stats' = <<>>
    /\ comparison' = <<>>
    /\ aggregates' = NoAggregates
    /\ schedule' = <<>>
    /\ next_pid' = 1
    /\ UNCHANGED <<algorithm, callee, quantum, pc, procs, loop_i, completed,
                   current_time, completion_times, ready_queue, next_index,
                   remaining, quantum_text, key_i, dialog, results, message>>

\* The rows that "for arrival, burst, priority in processes" inserts, the
\* first with the pid of the counter first.
ScenarioRows(label, first) ==
    [i \in 1..Len(Scenarios(label)) |->
        Process(first + i - 1,
                TreeValue(Scenarios(label)[i][1]),
                TreeValue(Scenarios(label)[i][2]),
                TreeValue(Scenarios(label)[i][3]))]

\* _on_scenario_selected: "None" changes nothing; a scenario is loaded into
\* the table that clear_all emptied.
OnScenarioSelected ==
    /\ pc = "idle"
    /\ \E selected_label \in ScenarioLabels \cup {"None"} :
          IF selected_label = "None"
          THEN UNCHANGED <<processes, stats, comparison, aggregates, schedule, next_pid>>
          ELSE /\ processes' = ScenarioRows(selected_label, 1)
               /\ next_pid' = 1 + Len(Scenarios(selected_label))
               /\ stats' = <<>>
               /\ comparison' = <<>>
               /\ aggregates' = NoAggregates
               /\ schedule' = <<>>
    /\ UNCHANGED <<algorithm, callee, quantum, pc, procs, loop_i, completed,
                   current_time, completion_times, ready_queue, next_index,
                   remaining, quantum_text, key_i, dialog, results, message>>

NextTable == AddProcess \/ RemoveSelectedProcess \/ ClearAll \/ OnScenarioSelected

SpecTable == InitTable /\ [][NextTable]_vars

(***************************************************************************)
(* C37.  After any sequence of add_process, remove_selected_process,       *)
(* clear_all and scenario loads the table is a valid algorithm input: its  *)
(* pids are pairwise distinct, every arrival_time is >= 0 and every        *)
(* burst_time is > 0.  An add_process that is rejected for arrival < 0 or  *)
(* burst <= 0 leaves the table and the pid counter unchanged.              *)
(***************************************************************************)
ValidTable ==
    /\ UniquePidsIn(processes)
    /\ \A k \in 1..Len(processes) :
          processes[k].arrival_time >= 0 /\ processes[k].burst_time > 0

\* The two texts are integers out of range: arrival < 0 or burst <= 0.
OutOfRange(arrival_entry, burst_entry) ==
    /\ ~IntRaises(Strip(arrival_entry)) /\ ~IntRaises(Strip(burst_entry))
    /\ ParseInt(Strip(arrival_entry)) < 0 \/ ParseInt(Strip(burst_entry)) <= 0

\* The entries add_process rejects for their range.
OutOfRangeEntries ==
    {e \in ArrivalTexts \X BurstTexts \X PriorityTexts : OutOfRange(e[1], e[2])}

\* Every step leaves the table and the counter as they are, or is not an
\* add_process on such entries.
C37_TableStaysValid ==
    /\ []ValidTable
    /\ [][\/ processes' = processes /\ next_pid' = next_pid
          \/ \A e \in OutOfRangeEntries : ~(pc = "idle" /\ AddProcessOn(e[1], e[2], e[3]))]_vars

\* A scenario was loaded, rows were removed, a process was added to what
\* was left, and the add_process after that was rejected for its range.
C37_Witness ==
    /\ Len(processes) = 2
    /\ processes[1].pid = 2 /\ processes[1].burst_time = 3
    /\ processes[2].pid = 5
    /\ next_pid = 6
    /\ message = "Arrival time must be >= 0 and burst time must be > 0."
====
